---- MODULE Spec2Model ----
(***************************************************************************)
(* CloudFront abuse detection: threshold evaluation, the durable abuse     *)
(* counter with its 15-minute window marker, the tiered alert gate and the *)
(* alert deduplication of one worker cycle.                                *)
(*                                                                         *)
(* Time is counted in 15-minute windows: `now` is the index of the current *)
(* window, and an hour holds WindowsPerHour of them.  One counter key is   *)
(* "{account}#{distribution}#{metric}"; the cycle specifications hold one   *)
(* account and one distribution, so a key is named by its metric.          *)
(*                                                                         *)
(* Further specifications cover single components: one store operation     *)
(* with its retries (SpecRetry), one scheduler run (SpecSched), the         *)
(* failed-account bookkeeping (SpecAcct), one worker event over its        *)
(* accounts and distributions (SpecGroup), the validation of a             *)
(* configuration (SpecConfig) and one alert delivery (SpecSend).           *)
(***************************************************************************)
EXTENDS Integers, Sequences, FiniteSets, TLC

VARIABLES
    now,          \* clock: index of the current 15-minute window
    counterItems, \* abuse counter table, canonical records: key -> Count
    windowItems,  \* abuse counter table, window markers: <<key, window>> -> Count
    sentItems,    \* sent-alerts table: set of alert keys <<key, hour>>
    sink,         \* messages accepted by the notification sink: bag alert key -> number
    pc,           \* per worker invocation: position in process_accounts
    inv,          \* per worker invocation: locals of the running cycle
    task,         \* per worker invocation: the alert task of its alert pool
    sentAlerts,   \* per worker invocation: AlertManager._sent_alerts
    cycles,       \* number of worker cycles started so far
    faults,       \* number of failed store calls and rejected deliveries so far
    hist,         \* history, per key: what happened to the key in the current window
    log,          \* history, sequential specification: one record per finished cycle
    evalCall,     \* evaluation specification: the last evaluate_metric call
    evalSeen,     \* evaluation specification: (relative, absolute, is_abuse) seen
    ddb,          \* store operation specification: one get/put_item_with_retry call
    sched,        \* scheduler specification: one scheduler run
    acct,         \* account specification: the account tables and one AccountManager
    grp,          \* group specification: one worker event over its accounts
    cfg,          \* configuration specification: one Config and its validate() result
    http,         \* delivery specification: one AlertManager._send_alert call
    calc          \* calculation specification: one call of a numeric helper

vars == <<now, counterItems, windowItems, sentItems, sink, pc, inv, task,
          sentAlerts, cycles, faults, hist, log, evalCall, evalSeen, ddb,
          sched, acct, grp, cfg, http, calc>>

----------------------------------------------------------------------------
(* Bounds of the model *)

MaxTime == 4         \* SpecHealthy: the clock runs over windows 0..MaxTime
MaxCycles == 3       \* SpecHealthy: worker cycles in one behaviour
MaxFaultyTime == 1   \* Spec, SpecConc: the clock runs over windows 0..MaxFaultyTime
MaxFaultyCycles == 2 \* Spec, SpecConc: worker cycles in one behaviour
MaxInitCount == 1   \* largest counter value the store may hold initially
MaxFaults == 2      \* store calls and deliveries that fail in one behaviour
MaxRetriesArg == 3  \* SpecRetry: largest max_retries a caller passes
MaxAccounts == 3    \* SpecSched: longest account list, drawn from accounts 1..MaxAccounts
MaxGroupSize == 3   \* SpecSched: largest group size, drawn from -1..MaxGroupSize
MaxOrgAccounts == 2 \* SpecAcct: accounts 1..MaxOrgAccounts of the organization
MaxRuns == 2        \* SpecAcct: get_active_accounts calls in one behaviour
MaxMultiplier == 3  \* SpecConfig: multipliers are drawn from -1..MaxMultiplier
MaxDuration == 2    \* SpecConfig: duration thresholds are drawn from 0..MaxDuration

----------------------------------------------------------------------------
(* Configuration defaults (Config dataclass) *)

abuse_multiplier == 3
warning_multiplier == 2
duration_threshold == 1
warning_duration_threshold == 2
critical_requests_threshold == 2500
warning_requests_threshold == 1250
MB == 1024 * 1024
critical_bytes_threshold == 1280 * MB
warning_bytes_threshold == 512 * MB
min_requests_threshold == 1000
min_bytes_threshold == 500 * MB
minimum_baseline_requests == 25
minimum_baseline_bytes == 25 * MB

(* 60 minutes / 15-minute window of update_abuse_counter *)
WindowsPerHour == 4

Metrics == {"Requests", "BytesDownloaded"}

----------------------------------------------------------------------------
(* Threshold evaluator: AbuseDetector.evaluate_metric and its helpers *)

\* Mutant of _check_threshold: the multiplier is applied to the current value.
_check_threshold_inverted(current, average, multiplier) ==
    IF average = 0 THEN current > 0 ELSE current * multiplier > average

\* _check_threshold: current > average * multiplier; a zero average is
\* exceeded by any positive current value.
_check_threshold(current, average, multiplier) ==
    IF average = 0 THEN current > 0 ELSE current > average * multiplier

\* _check_absolute_threshold: <<meets_threshold, severity_level>>
_check_absolute_threshold(metric_name, current) ==
    IF metric_name = "Requests"
    THEN IF current >= critical_requests_threshold THEN <<TRUE, "Critical">>
         ELSE IF current >= warning_requests_threshold THEN <<TRUE, "Warning">>
         ELSE <<FALSE, "None">>
    ELSE IF current >= critical_bytes_threshold THEN <<TRUE, "Critical">>
         ELSE IF current >= warning_bytes_threshold THEN <<TRUE, "Warning">>
         ELSE <<FALSE, "None">>

\* Mutant of _calculate_percentage_change: the average is the denominator.
_calculate_percentage_change_unfloored(current, average, minimum_baseline) ==
    IF average = 0
    THEN [inf |-> current # 0, num |-> 0, den |-> 1]
    ELSE [inf |-> FALSE, num |-> current - average, den |-> average]

\* _calculate_percentage_change: (num / den) * 100 given by its fraction
\* num / den, or float('inf'); baseline = max(average, minimum_baseline).
_calculate_percentage_change(current, average, minimum_baseline) ==
    LET baseline == IF average >= minimum_baseline THEN average ELSE minimum_baseline
    IN  IF baseline = 0
        THEN [inf |-> current # 0, num |-> 0, den |-> 1]
        ELSE [inf |-> FALSE, num |-> current - average, den |-> baseline]

\* Mutant of IsAbuse: the absolute threshold is forgotten.
IsAbuseRelativeOnly(meets_critical, meets_warning, meets_absolute) ==
    meets_critical \/ meets_warning

\* is_abuse = (meets_critical or meets_warning) and meets_absolute
IsAbuse(meets_critical, meets_warning, meets_absolute) ==
    (meets_critical \/ meets_warning) /\ meets_absolute

\* Mutant of evaluate_metric: the severity of the tier is returned even when
\* the evaluation is not abusive.
evaluate_metric_unmasked(metric_name, current_value, avg_value) ==
    LET minimum_baseline == IF metric_name = "Requests"
                            THEN minimum_baseline_requests
                            ELSE minimum_baseline_bytes
        percentage_change ==
            _calculate_percentage_change(current_value, avg_value, minimum_baseline)
        meets_critical == _check_threshold(current_value, avg_value, abuse_multiplier)
        meets_warning == _check_threshold(current_value, avg_value, warning_multiplier)
        meets_absolute == _check_absolute_threshold(metric_name, current_value)[1]
    IN  [is_abuse |-> IsAbuse(meets_critical, meets_warning, meets_absolute),
         severity |-> IF meets_critical THEN "Critical"
                      ELSE IF meets_warning THEN "Warning" ELSE "None",
         percentage_change |-> percentage_change,
         meets_critical_threshold |-> meets_critical,
         meets_warning_threshold |-> meets_warning,
         meets_absolute_threshold |-> meets_absolute,
         multiplier_level |-> IF meets_critical THEN abuse_multiplier
                              ELSE IF meets_warning THEN warning_multiplier ELSE 0]

evaluate_metric(metric_name, current_value, avg_value) ==
    LET minimum_baseline == IF metric_name = "Requests"
                            THEN minimum_baseline_requests
                            ELSE minimum_baseline_bytes
        percentage_change ==
            _calculate_percentage_change(current_value, avg_value, minimum_baseline)
        meets_critical == _check_threshold(current_value, avg_value, abuse_multiplier)
        meets_warning == _check_threshold(current_value, avg_value, warning_multiplier)
        meets_absolute == _check_absolute_threshold(metric_name, current_value)[1]
        multiplier_level == IF meets_critical THEN abuse_multiplier
                            ELSE IF meets_warning THEN warning_multiplier
                            ELSE 0
        severity == IF meets_critical THEN "Critical"
                    ELSE IF meets_warning THEN "Warning"
                    ELSE "None"
        is_abuse == IsAbuse(meets_critical, meets_warning, meets_absolute)
    IN  [is_abuse |-> is_abuse,
         severity |-> IF is_abuse THEN severity ELSE "None",
         percentage_change |-> percentage_change,
         meets_critical_threshold |-> meets_critical,
         meets_warning_threshold |-> meets_warning,
         meets_absolute_threshold |-> meets_absolute,
         multiplier_level |-> multiplier_level]

----------------------------------------------------------------------------
(* Durable key-value store: DynamoDBManager *)

NoItem == [found |-> FALSE, Count |-> 0]
Item(count) == [found |-> TRUE, Count |-> count]

\* Mutant of get_item_with_retry: a failed call is not told from a stored item.
get_item_despite_failure(table, key, ok) ==
    IF key \in DOMAIN table THEN Item(table[key]) ELSE NoItem

\* get_item_with_retry: the item, or None when it is absent or when the
\* store call fails (retryable errors exhausted, non-retryable error).
get_item_with_retry(table, key, ok) ==
    IF ok /\ key \in DOMAIN table THEN Item(table[key]) ELSE NoItem

\* put_item_with_retry: the table after the call; the call returns `ok`.
put_item_with_retry(table, key, count, ok) ==
    IF ok THEN (key :> count) @@ table ELSE table

\* The count held by the canonical record of a key (0 when absent).
CountOf(key) == IF key \in DOMAIN counterItems THEN counterItems[key] ELSE 0

----------------------------------------------------------------------------
(* Counter update arithmetic: AbuseDetector.update_abuse_counter *)

\* Mutant of NewCount: the decrement is not clamped at 0.
NewCountUnclamped(current_count, is_abuse) ==
    IF is_abuse THEN current_count + 1 ELSE current_count - 1

\* new_count = current_count + 1 if is_abuse else max(0, current_count - 1)
NewCount(current_count, is_abuse) ==
    IF is_abuse THEN current_count + 1
    ELSE IF current_count - 1 > 0 THEN current_count - 1 ELSE 0

\* Mutant of MainWriteFailed: the count that was not persisted is reported.
MainWriteFailedPhantom(current_count, new_count) == new_count

\* `if not success_main: return current_count`
MainWriteFailed(current_count, new_count) == current_count

\* Mutant of WindowWriteDone: a failed marker write fails the operation.
WindowWriteDoneStrict(current_count, new_count, success_window) ==
    IF success_window THEN new_count ELSE current_count

\* `if not success_window:` only logs; `return new_count`
WindowWriteDone(current_count, new_count, success_window) == new_count

\* Mutant of WindowKey: the marker is keyed by the window alone.
WindowKeyWithoutCounterKey(key, window) == <<"", window>>

\* window_key = f"{key}#{now.strftime('%Y%m%d%H')}{window_minute:02d}"
WindowKey(key, window) == <<key, window>>

\* Mutant of WindowHit: the window marker is never honoured.
WindowHitNever(cached_item) == FALSE

\* `if cached_item:` -- the idempotency short-circuit
WindowHit(cached_item) == cached_item.found

----------------------------------------------------------------------------
(* Alert gate: DistributionProcessor._process_metric_evaluation *)

\* Mutant of ShouldAlert: the warning tier alerts on the critical duration.
ShouldAlertOneDuration(evaluation, new_count) ==
    evaluation.is_abuse /\ new_count >= duration_threshold

\* Mutant of ShouldAlert: every tier waits for the sustained duration.
ShouldAlertSustainedOnly(evaluation, new_count) ==
    evaluation.is_abuse /\ new_count >= warning_duration_threshold

\* Mutant of ShouldAlert: is_abuse is not consulted.
ShouldAlertIgnoringAbuse(evaluation, new_count) ==
    IF evaluation.meets_critical_threshold THEN new_count >= duration_threshold
    ELSE IF evaluation.meets_warning_threshold
         THEN new_count >= warning_duration_threshold
         ELSE FALSE

ShouldAlert(evaluation, new_count) ==
    IF evaluation.is_abuse
    THEN IF evaluation.meets_critical_threshold
         THEN new_count >= duration_threshold
         ELSE IF evaluation.meets_warning_threshold
              THEN new_count >= warning_duration_threshold
              ELSE FALSE
    ELSE FALSE

----------------------------------------------------------------------------
(* Inputs *)

Workers == {"w1", "w2"}
SeqWorkers == {"w1"}

\* Metric samples <<current, average>> a cycle may observe, per metric.
ScenarioSamplesOf(metric_name) ==
    IF metric_name = "Requests"
    THEN { <<3000, 500>>,     \* critical tier, absolute met
           <<1500, 600>>,     \* warning tier only, absolute met
           <<1100, 500>> }    \* warning tier, absolute not met: no abuse
    ELSE { <<1500 * MB, 400 * MB>> }  \* critical tier, absolute met

SamplesOf(metric_name) ==
    IF metric_name = "Requests"
    THEN { <<3000, 500>>,     \* critical tier, absolute met
           <<1500, 600>>,     \* warning tier only, absolute met
           <<1100, 500>> }    \* warning tier, absolute not met: no abuse
    ELSE { <<1500 * MB, 400 * MB>>,   \* critical tier, absolute met
           <<600 * MB, 580 * MB>> }   \* absolute met, no relative tier: no abuse

RequestValues == {0, 400, 500, 600, 900, 1000, 1250, 1500, 2500, 3000}
ByteCurrents == {0, 300 * MB, 512 * MB, 600 * MB, 1280 * MB, 1500 * MB}
ByteAverages == {0, 100 * MB, 250 * MB, 400 * MB, 600 * MB}

Hour(window) == window \div WindowsPerHour
AlertKeys == Metrics \X (0 .. Hour(MaxTime))

----------------------------------------------------------------------------
(* State *)

NoInv == [key |-> "Requests", current |-> 0, average |-> 0,
          evaluation |-> evaluate_metric("Requests", 0, 0),
          window |-> 0, before |-> NoItem, marked |-> FALSE,
          current_count |-> 0, new_count |-> 0, count |-> 0,
          wrote |-> FALSE, queued |-> FALSE, storeOk |-> TRUE,
          \* history: how each store call of update_abuse_counter ended
          lookup |-> "none", read |-> "none", success_main |-> "none",
          success_window |-> "none"]

\* How a store call ended, for the history fields.
Ended(ok) == IF ok THEN "ok" ELSE "failed"

NoTask == [state |-> "none", key |-> "Requests", hour |-> 0, outcome |-> "none",
           lookup |-> "none"]

NoHist == [base |-> 0, calls |-> 0, dirty |-> FALSE]

InUpdate(w) == pc[w] \in {"check_window", "read_counter", "put_main", "put_window"}

InitStore ==
    /\ now = 0
    /\ \E present \in SUBSET {"Requests"} :
         counterItems \in [present -> 0 .. MaxInitCount]
    /\ windowItems = << >>
    /\ sentItems = {}
    /\ sink = [a \in AlertKeys |-> 0]

\* No store operation is under way.
NoDdb == [pc |-> "idle", op |-> "get", max_retries |-> 0, present |-> FALSE,
          attempt |-> 0, calls |-> 0, slept |-> 0, errors |-> << >>,
          result |-> "none"]

\* No scheduler run is under way.
NoSched == [pc |-> "idle", accounts |-> << >>, group_size |-> 0,
            worker_lambda_name |-> FALSE, account_groups |-> << >>,
            group_index |-> 0, attempts |-> << >>, workers_invoked |-> 0,
            errors |-> << >>]

\* Empty account tables and no AccountManager call under way.
NoAcct == [failed_table |-> {}, account_cache |-> << >>, cache_valid |-> FALSE,
           recorded |-> {}, pc |-> "idle", runs |-> 0,
           failed_accounts_cache |-> {}, cache_loaded |-> FALSE,
           accounts |-> << >>, source |-> "none", scan_ok |-> TRUE,
           must_omit |-> {}, result |-> << >>]

\* No worker event is being handled.
NoGroup == [pc |-> "idle"]

\* The Config dataclass with its default values; multipliers are whole numbers.
DefaultConfig ==
    [region |-> "us-east-1",
     org_access_role |-> "OrganizationAccessRole_DO_NOT_DELETE",
     abuse_multiplier |-> abuse_multiplier,
     warning_multiplier |-> warning_multiplier,
     duration_threshold |-> duration_threshold,
     warning_duration_threshold |-> warning_duration_threshold,
     min_requests_threshold |-> min_requests_threshold,
     min_bytes_threshold |-> min_bytes_threshold,
     critical_requests_threshold |-> critical_requests_threshold,
     critical_bytes_threshold |-> critical_bytes_threshold,
     warning_requests_threshold |-> warning_requests_threshold,
     warning_bytes_threshold |-> warning_bytes_threshold,
     minimum_baseline_requests |-> minimum_baseline_requests,
     minimum_baseline_bytes |-> minimum_baseline_bytes,
     max_workers |-> 12,
     dist_max_workers |-> 5,
     alert_max_workers |-> 5,
     telegram_bot_token |-> "",
     telegram_chat_id |-> "",
     ddb_abuse_counter_table |-> "CF_Abuse_Counter",
     ddb_accounts_cache_table |-> "CF_Accounts_Cache",
     ddb_failed_accounts_table |-> "CF_Failed_Accounts",
     ddb_sent_alerts_table |-> "CF_Sent_Alerts",
     accounts_cache_ttl |-> 86400,
     metrics_cache_ttl |-> 21600,
     failed_accounts_ttl |-> 604800,
     abuse_counter_ttl |-> 2592000,
     sent_alerts_ttl |-> 86400,
     display_timezone_offset |-> 8]

\* No configuration is being validated.
NoConfig == [pc |-> "idle", config |-> DefaultConfig, errors |-> << >>]

\* No numeric helper has been called.
NoCalc == [op |-> "none", current |-> 0, average |-> 0, minimum_baseline |-> 0,
           abuse_multiplier |-> 0, warning_multiplier |-> 0,
           percentage_change |-> [inf |-> FALSE, num |-> 0, den |-> 1],
           meets_critical |-> FALSE, meets_warning |-> FALSE]

\* No delivery is under way.
NoHttp == [pc |-> "idle", configured |-> TRUE, attempt |-> 0, requests |-> << >>,
           slept |-> 0, result |-> "none"]

InitCycle ==
    /\ pc = [w \in Workers |-> "idle"]
    /\ inv = [w \in Workers |-> NoInv]
    /\ task = [w \in Workers |-> NoTask]
    /\ sentAlerts = [w \in Workers |-> {}]
    /\ cycles = 0
    /\ faults = 0
    /\ log = << >>
    /\ evalCall = [called |-> FALSE, metric_name |-> "Requests", current |-> 0,
                   average |-> 0, result |-> evaluate_metric("Requests", 0, 0)]
    /\ evalSeen = {}

Init ==
    /\ InitStore
    /\ InitCycle
    /\ hist = [k \in Metrics |-> [NoHist EXCEPT !.base = CountOf(k)]]
    /\ ddb = NoDdb
    /\ sched = NoSched
    /\ acct = NoAcct
    /\ grp = NoGroup
    /\ cfg = NoConfig
    /\ http = NoHttp
    /\ calc = NoCalc

\* The worker with empty tables, for the specifications of single components.
WorkerAtRest ==
    /\ now = 0
    /\ counterItems = << >>
    /\ windowItems = << >>
    /\ sentItems = {}
    /\ sink = [a \in AlertKeys |-> 0]
    /\ InitCycle
    /\ hist = [k \in Metrics |-> NoHist]

storeVars == <<counterItems, windowItems, sentItems, sink>>
alertVars == <<task, sentAlerts, sentItems, sink>>
evalVars == <<evalCall, evalSeen>>
compVars == <<ddb, sched, acct, grp, cfg, http, calc>>
workerVars == <<now, storeVars, pc, inv, task, sentAlerts, cycles, faults, hist, log>>
otherThanDdb == <<workerVars, evalVars, sched, acct, grp, cfg, http, calc>>
otherThanSched == <<workerVars, evalVars, ddb, acct, grp, cfg, http, calc>>
otherThanAcct == <<workerVars, evalVars, ddb, sched, grp, cfg, http, calc>>
otherThanConfig == <<workerVars, evalVars, ddb, sched, acct, grp, http, calc>>
otherThanHttp == <<workerVars, evalVars, ddb, sched, acct, grp, cfg, calc>>
otherThanCalc == <<workerVars, evalVars, ddb, sched, acct, grp, cfg, http>>
otherThanGroup == <<now, sentItems, sink, pc, inv, task, sentAlerts, cycles, faults,
                    hist, log, evalVars, ddb, sched, acct, cfg, http, calc>>

----------------------------------------------------------------------------
(* Environment: the clock, and the store or sink failing a call *)

\* The outcome `ok` of a store call or a delivery, within the fault budget.
Outcome(ok) ==
    /\ ok \/ faults < MaxFaults
    /\ faults' = IF ok THEN faults ELSE faults + 1

Tick(limit) ==
    /\ now < limit
    /\ now' = now + 1
    /\ hist' = [k \in Metrics |->
                  [base |-> CountOf(k), calls |-> 0,
                   dirty |-> \E w \in Workers : InUpdate(w) /\ inv[w].key = k]]
    /\ UNCHANGED <<storeVars, pc, inv, task, sentAlerts, cycles, faults, log, evalVars, compVars>>

\* The clock is read by Begin (the window key) and by Gate (the alert's
\* timestamp) only; where one worker runs alone, a tick is taken right before
\* such a read.
TickBeforeRead(limit) ==
    /\ \A w \in Workers : pc[w] \in {"idle", "returned", "gate"}
    /\ Tick(limit)

----------------------------------------------------------------------------
(* One worker cycle: process_accounts -> _process_metric_evaluation *)

\* A worker invocation starts: fresh AlertManager, the metric sample is
\* fetched and evaluated, update_abuse_counter computes its window key.
Begin(w, key, sample, limit) ==
    /\ pc[w] \in {"idle", "returned"}
    \* the invocations are interchangeable: "w1" is the first to start
    /\ w = "w1" \/ pc["w1"] # "idle"
    /\ cycles < limit
    /\ cycles' = cycles + 1
    /\ pc' = [pc EXCEPT ![w] = "check_window"]
    /\ inv' = [inv EXCEPT ![w] =
                 [NoInv EXCEPT !.key = key, !.current = sample[1],
                               !.average = sample[2],
                               !.evaluation = evaluate_metric(key, sample[1], sample[2]),
                               !.window = now,
                               !.before = IF key \in DOMAIN counterItems
                                          THEN Item(counterItems[key]) ELSE NoItem,
                               !.marked = WindowKey(key, now) \in DOMAIN windowItems]]
    /\ task' = [task EXCEPT ![w] = NoTask]
    /\ sentAlerts' = [sentAlerts EXCEPT ![w] = {}]
    /\ hist' = [hist EXCEPT ![key].calls = @ + 1]
    /\ UNCHANGED <<now, storeVars, faults, log, evalVars, compVars>>

\* update_abuse_counter, lines 237-257: look the window marker up.
CheckWindow(w, ok) ==
    /\ Outcome(ok)
    /\ pc[w] = "check_window"
    /\ LET cached_item ==
             get_item_with_retry(windowItems,
                                 WindowKey(inv[w].key, inv[w].window), ok)
       IN  IF WindowHit(cached_item)
           THEN /\ inv' = [inv EXCEPT ![w].count = cached_item.Count,
                                      ![w].storeOk = @ /\ ok,
                                      ![w].lookup = Ended(ok)]
                /\ pc' = [pc EXCEPT ![w] = "gate"]
           ELSE /\ inv' = [inv EXCEPT ![w].storeOk = @ /\ ok,
                                      ![w].lookup = Ended(ok)]
                /\ pc' = [pc EXCEPT ![w] = "read_counter"]
    /\ UNCHANGED <<now, storeVars, task, sentAlerts, cycles, hist, log, evalVars, compVars>>

\* update_abuse_counter, lines 259-275: get_abuse_counter and the new count.
ReadCounter(w, ok) ==
    /\ Outcome(ok)
    /\ pc[w] = "read_counter"
    /\ LET item == get_item_with_retry(counterItems, inv[w].key, ok)
           current_count == IF item.found THEN item.Count ELSE 0
       IN  inv' = [inv EXCEPT ![w].current_count = current_count,
                              ![w].new_count =
                                  NewCount(current_count, inv[w].evaluation.is_abuse),
                              ![w].storeOk = @ /\ ok,
                              ![w].read = Ended(ok)]
    /\ pc' = [pc EXCEPT ![w] = "put_main"]
    /\ UNCHANGED <<now, storeVars, task, sentAlerts, cycles, hist, log, evalVars, compVars>>

\* update_abuse_counter, lines 281-300: write the canonical record.
PutMain(w, ok) ==
    /\ Outcome(ok)
    /\ pc[w] = "put_main"
    /\ counterItems' =
           put_item_with_retry(counterItems, inv[w].key, inv[w].new_count, ok)
    /\ IF ok
       THEN /\ inv' = [inv EXCEPT ![w].wrote = TRUE, ![w].success_main = "ok"]
            /\ pc' = [pc EXCEPT ![w] = "put_window"]
       ELSE /\ inv' = [inv EXCEPT ![w].count =
                                      MainWriteFailed(inv[w].current_count,
                                                      inv[w].new_count),
                                  ![w].storeOk = FALSE,
                                  ![w].success_main = "failed"]
            /\ pc' = [pc EXCEPT ![w] = "gate"]
    /\ UNCHANGED <<now, windowItems, sentItems, sink, task, sentAlerts, cycles,
                   hist, log, evalVars, compVars>>

\* update_abuse_counter, lines 302-332: write the window marker, return.
PutWindow(w, ok) ==
    /\ Outcome(ok)
    /\ pc[w] = "put_window"
    /\ windowItems' =
           put_item_with_retry(windowItems, WindowKey(inv[w].key, inv[w].window),
                               inv[w].new_count, ok)
    /\ inv' = [inv EXCEPT ![w].count =
                               WindowWriteDone(inv[w].current_count,
                                               inv[w].new_count, ok),
                           ![w].storeOk = @ /\ ok,
                           ![w].success_window = Ended(ok)]
    /\ pc' = [pc EXCEPT ![w] = "gate"]
    /\ UNCHANGED <<now, counterItems, sentItems, sink, task, sentAlerts, cycles,
                   hist, log, evalVars, compVars>>

\* _process_metric_evaluation, lines 251-292: the tiered gate; an alert is
\* stamped with the current time and handed to the alert pool.
Gate(w) ==
    /\ pc[w] = "gate"
    /\ IF ShouldAlert(inv[w].evaluation, inv[w].count)
       THEN /\ task' = [task EXCEPT ![w] =
                          [state |-> "queued", key |-> inv[w].key,
                           hour |-> Hour(now), outcome |-> "none",
                           lookup |-> "none"]]
            /\ inv' = [inv EXCEPT ![w].queued = TRUE]
       ELSE UNCHANGED <<task, inv>>
    /\ pc' = [pc EXCEPT ![w] = "shutdown"]
    /\ UNCHANGED <<now, storeVars, sentAlerts, cycles, faults, hist, log, evalVars, compVars>>

----------------------------------------------------------------------------
(* The alert pool: AlertManager._send_alert_with_dedup *)

AlertKey(w) == <<task[w].key, task[w].hour>>

\* Mutant of InSentTable: the sent-alerts table is not consulted.
InSentTableNever(alert_key, ok) == FALSE

\* Mutant of InSentTable: a failed lookup counts as a record found.
InSentTableFailClosed(alert_key, ok) == ~ok \/ alert_key \in sentItems

\* get_item_with_retry on the sent-alerts table: `item is not None`
InSentTable(alert_key, ok) == ok /\ alert_key \in sentItems

\* _is_duplicate_alert: in-process set, then the sent-alerts table.
IsDuplicateAlert(w, ok) ==
    /\ Outcome(ok)
    /\ task[w].state = "queued"
    /\ IF AlertKey(w) \in sentAlerts[w]
       THEN /\ task' = [task EXCEPT ![w].state = "done", ![w].outcome = "duplicate"]
            /\ UNCHANGED sentAlerts
       ELSE IF InSentTable(AlertKey(w), ok)
       THEN /\ sentAlerts' = [sentAlerts EXCEPT ![w] = @ \cup {AlertKey(w)}]
            /\ task' = [task EXCEPT ![w].state = "done", ![w].outcome = "duplicate",
                                    ![w].lookup = Ended(ok)]
       ELSE /\ task' = [task EXCEPT ![w].state = "send", ![w].lookup = Ended(ok)]
            /\ UNCHANGED sentAlerts
    /\ UNCHANGED <<now, storeVars, pc, inv, cycles, hist, log, evalVars, compVars>>

\* Mutant of ShouldRecord: the alert is recorded whether or not it was
\* delivered.
ShouldRecordAlways(success) == TRUE

\* _send_alert_with_dedup, `if success:` the sent alert is recorded.
ShouldRecord(success) == success

\* _send_alert: the sink accepts the message or the delivery fails.
SendAlert(w, accepted) ==
    /\ Outcome(accepted)
    /\ task[w].state = "send"
    /\ sink' = IF accepted THEN [sink EXCEPT ![AlertKey(w)] = @ + 1] ELSE sink
    /\ task' = IF ShouldRecord(accepted)
               THEN [task EXCEPT ![w].state = "record"]
               ELSE [task EXCEPT ![w].state = "done", ![w].outcome = "failed"]
    /\ UNCHANGED <<now, counterItems, windowItems, sentItems, pc, inv, sentAlerts,
                   cycles, hist, log, evalVars, compVars>>

\* _record_sent_alert: in-process set and sent-alerts table.
RecordSentAlert(w, ok) ==
    /\ Outcome(ok)
    /\ task[w].state = "record"
    /\ sentAlerts' = [sentAlerts EXCEPT ![w] = @ \cup {AlertKey(w)}]
    /\ sentItems' = IF ok THEN sentItems \cup {AlertKey(w)} ELSE sentItems
    /\ task' = [task EXCEPT ![w].state = "done", ![w].outcome = "sent"]
    /\ UNCHANGED <<now, counterItems, windowItems, sink, pc, inv, cycles, hist,
                   log, evalVars, compVars>>

----------------------------------------------------------------------------
(* End of the cycle: AlertManager.shutdown, process_accounts returns *)

\* Mutant of ShutdownReady: shutdown(wait=False).
ShutdownNoWait(w) == TRUE

\* executor.shutdown(wait=True) returns once no queued dispatch is pending.
ShutdownReady(w) == task[w].state \in {"none", "done"}

LogRecord(w) ==
    [key |-> inv[w].key, current |-> inv[w].current, average |-> inv[w].average,
     evaluation |-> inv[w].evaluation, window |-> inv[w].window,
     before |-> inv[w].before, marked |-> inv[w].marked, after |-> CountOf(inv[w].key),
     count |-> inv[w].count, wrote |-> inv[w].wrote, queued |-> inv[w].queued,
     storeOk |-> inv[w].storeOk, hour |-> task[w].hour, outcome |-> task[w].outcome]

Shutdown(w, logging) ==
    /\ pc[w] = "shutdown"
    /\ ShutdownReady(w)
    /\ pc' = [pc EXCEPT ![w] = "returned"]
    /\ inv' = [inv EXCEPT ![w] = NoInv]
    /\ log' = IF logging THEN Append(log, LogRecord(w)) ELSE log
    /\ UNCHANGED <<now, storeVars, task, sentAlerts, cycles, faults, hist, evalVars, compVars>>

----------------------------------------------------------------------------
(* A call of the threshold evaluator on its own *)

Evaluate(metric_name, current, average) ==
    LET result == evaluate_metric(metric_name, current, average)
    IN  /\ evalCall' = [called |-> TRUE, metric_name |-> metric_name,
                        current |-> current, average |-> average,
                        result |-> result]
        /\ evalSeen' = evalSeen \cup
               { << result.meets_critical_threshold \/ result.meets_warning_threshold,
                    result.meets_absolute_threshold,
                    result.is_abuse >> }
        /\ UNCHANGED <<now, storeVars, pc, inv, task, sentAlerts, cycles, faults,
                       hist, log, compVars>>

----------------------------------------------------------------------------
(* Specifications *)

\* Spec: worker invocations that run one after another; the clock advances
\* between and inside them; any store call or delivery may fail.
Next ==
    \/ TickBeforeRead(MaxFaultyTime)
    \/ \E w \in SeqWorkers, key \in Metrics : \E sample \in SamplesOf(key) :
           Begin(w, key, sample, MaxFaultyCycles)
    \/ \E w \in SeqWorkers, ok \in BOOLEAN : CheckWindow(w, ok)
    \/ \E w \in SeqWorkers, ok \in BOOLEAN : ReadCounter(w, ok)
    \/ \E w \in SeqWorkers, ok \in BOOLEAN : PutMain(w, ok)
    \/ \E w \in SeqWorkers, ok \in BOOLEAN : PutWindow(w, ok)
    \/ \E w \in SeqWorkers : Gate(w)
    \/ \E w \in SeqWorkers, ok \in BOOLEAN : IsDuplicateAlert(w, ok)
    \/ \E w \in SeqWorkers, accepted \in BOOLEAN : SendAlert(w, accepted)
    \/ \E w \in SeqWorkers, ok \in BOOLEAN : RecordSentAlert(w, ok)
    \/ \E w \in SeqWorkers : Shutdown(w, FALSE)

Spec == Init /\ [][Next]_vars

\* SpecHealthy: worker invocations that run one after another with a healthy
\* store and a healthy sink; every finished cycle is appended to the log.
NextHealthy ==
    \/ TickBeforeRead(MaxTime)
    \/ \E w \in SeqWorkers, key \in Metrics : \E sample \in ScenarioSamplesOf(key) :
           Begin(w, key, sample, MaxCycles)
    \/ \E w \in SeqWorkers : CheckWindow(w, TRUE)
    \/ \E w \in SeqWorkers : ReadCounter(w, TRUE)
    \/ \E w \in SeqWorkers : PutMain(w, TRUE)
    \/ \E w \in SeqWorkers : PutWindow(w, TRUE)
    \/ \E w \in SeqWorkers : Gate(w)
    \/ \E w \in SeqWorkers : IsDuplicateAlert(w, TRUE)
    \/ \E w \in SeqWorkers : SendAlert(w, TRUE)
    \/ \E w \in SeqWorkers : RecordSentAlert(w, TRUE)
    \/ \E w \in SeqWorkers : Shutdown(w, TRUE)

SpecHealthy == Init /\ [][NextHealthy]_vars

\* SpecConc: two worker invocations that may overlap (a duplicate
\* invocation of the same cycle, or two cycles); any store call or delivery
\* may fail.
NextConc ==
    \/ Tick(MaxFaultyTime)
    \/ \E w \in Workers, key \in Metrics : \E sample \in ScenarioSamplesOf(key) :
           Begin(w, key, sample, MaxFaultyCycles)
    \/ \E w \in Workers, ok \in BOOLEAN : CheckWindow(w, ok)
    \/ \E w \in Workers, ok \in BOOLEAN : ReadCounter(w, ok)
    \/ \E w \in Workers, ok \in BOOLEAN : PutMain(w, ok)
    \/ \E w \in Workers, ok \in BOOLEAN : PutWindow(w, ok)
    \/ \E w \in Workers : Gate(w)
    \/ \E w \in Workers, ok \in BOOLEAN : IsDuplicateAlert(w, ok)
    \/ \E w \in Workers, accepted \in BOOLEAN : SendAlert(w, accepted)
    \/ \E w \in Workers, ok \in BOOLEAN : RecordSentAlert(w, ok)
    \/ \E w \in Workers : Shutdown(w, FALSE)

SpecConc == Init /\ [][NextConc]_vars

\* The metric whose counter an invocation of SpecFrame updates.
MetricOf(w) == IF w = "w1" THEN "Requests" ELSE "BytesDownloaded"

\* SpecFrame: two worker invocations that overlap inside one 15-minute
\* window, each updating the counter of one metric; any store call may fail.
NextFrame ==
    \/ \E w \in Workers : \E sample \in ScenarioSamplesOf(MetricOf(w)) :
           Begin(w, MetricOf(w), sample, MaxFaultyCycles)
    \/ \E w \in Workers, ok \in BOOLEAN : CheckWindow(w, ok)
    \/ \E w \in Workers, ok \in BOOLEAN : ReadCounter(w, ok)
    \/ \E w \in Workers, ok \in BOOLEAN : PutMain(w, ok)
    \/ \E w \in Workers, ok \in BOOLEAN : PutWindow(w, ok)
    \/ \E w \in Workers : Gate(w)
    \/ \E w \in Workers : IsDuplicateAlert(w, TRUE)
    \/ \E w \in Workers : SendAlert(w, TRUE)
    \/ \E w \in Workers : RecordSentAlert(w, TRUE)
    \/ \E w \in Workers : Shutdown(w, FALSE)

SpecFrame == Init /\ [][NextFrame]_vars

\* SpecAlert: worker invocations that run one after another over a healthy
\* counter store; the sink may reject an alert and the calls on the
\* sent-alerts table may fail.
NextAlert ==
    \/ TickBeforeRead(MaxFaultyTime)
    \/ \E w \in SeqWorkers, key \in Metrics : \E sample \in SamplesOf(key) :
           Begin(w, key, sample, MaxFaultyCycles)
    \/ \E w \in SeqWorkers : CheckWindow(w, TRUE)
    \/ \E w \in SeqWorkers : ReadCounter(w, TRUE)
    \/ \E w \in SeqWorkers : PutMain(w, TRUE)
    \/ \E w \in SeqWorkers : PutWindow(w, TRUE)
    \/ \E w \in SeqWorkers : Gate(w)
    \/ \E w \in SeqWorkers, ok \in BOOLEAN : IsDuplicateAlert(w, ok)
    \/ \E w \in SeqWorkers, accepted \in BOOLEAN : SendAlert(w, accepted)
    \/ \E w \in SeqWorkers, ok \in BOOLEAN : RecordSentAlert(w, ok)
    \/ \E w \in SeqWorkers : Shutdown(w, TRUE)

SpecAlert == Init /\ [][NextAlert]_vars

\* SpecEval: evaluate_metric called on sampled inputs.
NextEval ==
    \/ \E current \in RequestValues, average \in RequestValues :
           Evaluate("Requests", current, average)
    \/ \E current \in ByteCurrents, average \in ByteAverages :
           Evaluate("BytesDownloaded", current, average)

SpecEval == Init /\ [][NextEval]_vars

----------------------------------------------------------------------------
(* One store operation: DynamoDBManager.get_item_with_retry and            *)
(* put_item_with_retry, attempt by attempt                                 *)

RETRYABLE_ERRORS ==
    {"ThrottlingException", "ProvisionedThroughputExceededException",
     "RequestLimitExceeded", "ServiceUnavailable", "InternalServerError"}

\* Error codes of ClientError that are not in RETRYABLE_ERRORS.
NonRetryableErrors == {"AccessDeniedException", "ValidationException"}

\* What one table.get_item / table.put_item call may do: succeed, raise a
\* ClientError with a code, or raise another exception.
StoreOutcomes == {"ok"} \cup RETRYABLE_ERRORS \cup NonRetryableErrors \cup {"Exception"}

default_max_retries == 3

\* Mutant of IsRetryable: every ClientError is retried.
IsRetryableAlways(error_code) == error_code # "Exception"

IsRetryable(error_code) == error_code \in RETRYABLE_ERRORS

\* Mutant of MayRetry: the operation gives up one attempt early.
MayRetryOneLess(attempt, max_retries) == attempt < max_retries - 2

\* `if attempt < max_retries - 1`
MayRetry(attempt, max_retries) == attempt < max_retries - 1

\* 2 ** attempt
WaitTime(attempt) == 2 ^ attempt

\* The value the operation returns on success and on failure.
OnSuccess(op, present) ==
    IF op = "put" THEN "True" ELSE IF present THEN "Item" ELSE "None"

OnFailure(op) == IF op = "put" THEN "False" ELSE "None"

\* One pass of `for attempt in range(max_retries)`: one store call and the
\* handling of what it raised.
Attempt(outcome) ==
    /\ ddb.pc = "loop"
    /\ ddb.attempt < ddb.max_retries
    /\ LET called == [ddb EXCEPT !.calls = @ + 1, !.errors = Append(@, outcome)]
       IN  ddb' =
             IF outcome = "ok"
             THEN [called EXCEPT !.pc = "returned",
                                 !.result = OnSuccess(ddb.op, ddb.present)]
             ELSE IF IsRetryable(outcome) /\ MayRetry(ddb.attempt, ddb.max_retries)
             THEN [called EXCEPT !.attempt = @ + 1,
                                 !.slept = @ + WaitTime(ddb.attempt)]
             ELSE [called EXCEPT !.pc = "returned", !.result = OnFailure(ddb.op)]
    /\ UNCHANGED otherThanDdb

\* range(max_retries) is exhausted without a return: the trailing
\* `return None` / `return False`.
LoopExhausted ==
    /\ ddb.pc = "loop"
    /\ ddb.attempt >= ddb.max_retries
    /\ ddb' = [ddb EXCEPT !.pc = "returned", !.result = OnFailure(ddb.op)]
    /\ UNCHANGED otherThanDdb

InitRetry ==
    /\ WorkerAtRest
    /\ sched = NoSched
    /\ acct = NoAcct
    /\ grp = NoGroup
    /\ cfg = NoConfig
    /\ http = NoHttp
    /\ calc = NoCalc
    /\ \E op \in {"get", "put"}, max_retries \in 0 .. MaxRetriesArg,
          present \in BOOLEAN :
         ddb = [NoDdb EXCEPT !.pc = "loop", !.op = op,
                             !.max_retries = max_retries, !.present = present]

NextRetry ==
    \/ \E outcome \in StoreOutcomes : Attempt(outcome)
    \/ LoopExhausted

\* SpecRetry: one get_item_with_retry or put_item_with_retry call; the
\* running operation always takes its next step.
SpecRetry == InitRetry /\ [][NextRetry]_vars /\ WF_vars(NextRetry)

----------------------------------------------------------------------------
(* The scheduler: group_accounts and invoke_workers_async *)

Max(a, b) == IF a >= b THEN a ELSE b
Min(a, b) == IF a <= b THEN a ELSE b

\* Python's accounts[i:j] for 0 <= i <= j, on a 1-based sequence.
Slice(accounts, i, j) == SubSeq(accounts, i + 1, Min(j, Len(accounts)))

\* range(0, n, step) as the sequence of its values.
RECURSIVE RangeFrom(_, _, _)
RangeFrom(i, n, step) ==
    IF i >= n THEN << >> ELSE <<i>> \o RangeFrom(i + step, n, step)

\* Mutant of GroupSize: the floor of the group size is 2.
GroupSizeFloorTwo(group_size) == Max(2, group_size)

\* group_size = max(1, group_size)
GroupSize(group_size) == Max(1, group_size)

group_accounts(accounts, group_size) ==
    IF accounts = << >>
    THEN << >>
    ELSE LET size == GroupSize(group_size)
             starts == RangeFrom(0, Len(accounts), size)
         IN  [k \in 1 .. Len(starts) |->
                Slice(accounts, starts[k], starts[k] + size)]

\* The sequences without repetition over the set S.
InjectiveSeqs(S) ==
    UNION { {q \in [1 .. n -> S] : \A i, j \in 1 .. n : i # j => q[i] # q[j]}
            : n \in 0 .. Cardinality(S) }

AccountLists == InjectiveSeqs(1 .. MaxAccounts)

\* What lambda_client.invoke may do: answer with a status code, raise a
\* ClientError, or raise another exception.
InvokeOutcomes ==
    { [raised |-> "none", StatusCode |-> 202],
      [raised |-> "none", StatusCode |-> 500],
      [raised |-> "ClientError", StatusCode |-> 0],
      [raised |-> "Exception", StatusCode |-> 0] }

\* lambda_handler: account_groups = group_accounts(accounts, accounts_per_worker)
GroupAccounts ==
    /\ sched.pc = "group"
    /\ sched' = [sched EXCEPT
                   !.pc = "invoke",
                   !.account_groups = group_accounts(sched.accounts, sched.group_size)]
    /\ UNCHANGED otherThanSched

\* invoke_workers_async without WORKER_LAMBDA_NAME: no attempt is made.
NoWorkerName ==
    /\ sched.pc = "invoke"
    /\ ~sched.worker_lambda_name
    /\ sched' = [sched EXCEPT !.pc = "returned",
                              !.errors = <<"WORKER_LAMBDA_NAME not set">>]
    /\ UNCHANGED otherThanSched

\* Mutant of AfterFailedAttempt: a failed attempt ends the loop.
AfterFailedAttemptStop(group_index, total_groups) == total_groups

\* The except branches append the error and fall through to the next pass.
AfterFailedAttempt(group_index, total_groups) == group_index + 1

\* One pass of `for group_index, accounts in enumerate(account_groups)`.
InvokeWorker(outcome) ==
    /\ sched.pc = "invoke"
    /\ sched.worker_lambda_name
    /\ sched.group_index < Len(sched.account_groups)
    /\ LET tried == [sched EXCEPT
                      !.attempts = Append(@, <<sched.group_index, outcome>>)]
       IN  sched' =
             IF outcome.raised = "none" /\ outcome.StatusCode = 202
             THEN [tried EXCEPT !.workers_invoked = @ + 1,
                                !.group_index = @ + 1]
             ELSE [tried EXCEPT
                     !.errors = Append(@, <<sched.group_index, outcome>>),
                     !.group_index =
                        AfterFailedAttempt(@, Len(sched.account_groups))]
    /\ UNCHANGED otherThanSched

\* The loop is over: invoke_workers_async returns its counts.
InvokeDone ==
    /\ sched.pc = "invoke"
    /\ sched.worker_lambda_name
    /\ sched.group_index >= Len(sched.account_groups)
    /\ sched' = [sched EXCEPT !.pc = "returned"]
    /\ UNCHANGED otherThanSched

InitSched ==
    /\ WorkerAtRest
    /\ ddb = NoDdb
    /\ acct = NoAcct
    /\ grp = NoGroup
    /\ cfg = NoConfig
    /\ http = NoHttp
    /\ calc = NoCalc
    /\ \E accounts \in AccountLists, group_size \in -1 .. MaxGroupSize,
          worker_lambda_name \in BOOLEAN :
         sched = [NoSched EXCEPT !.pc = "group", !.accounts = accounts,
                                 !.group_size = group_size,
                                 !.worker_lambda_name = worker_lambda_name]

NextSched ==
    \/ GroupAccounts
    \/ NoWorkerName
    \/ \E outcome \in InvokeOutcomes : InvokeWorker(outcome)
    \/ InvokeDone

\* SpecSched: one scheduler run over an account list.
SpecSched == InitSched /\ [][NextSched]_vars

----------------------------------------------------------------------------
(* Accounts: AccountManager.get_active_accounts, get_failed_accounts and   *)
(* record_failed_account over the failed-accounts table                    *)

\* The ACTIVE accounts Organizations lists, in its order.
OrgAccounts == [i \in 1 .. MaxOrgAccounts |-> i]

\* Mutant of ActiveAccounts: the list is returned unfiltered.
ActiveAccountsUnfiltered(accounts, failed_accounts) == accounts

\* [acc for acc in accounts if acc['Id'] not in failed_accounts]
ActiveAccounts(accounts, failed_accounts) ==
    LET NotFailed(acc) == acc \notin failed_accounts
    IN  SelectSeq(accounts, NotFailed)

\* AccountProcessor.process_account: the role assumption for account_id
\* failed, record_failed_account writes the record (put succeeded or not).
\* The worker's AccountManager has loaded no failed-accounts cache.
RoleAssumptionFailed(account_id, ok) ==
    /\ acct' = IF ok
               THEN [acct EXCEPT !.failed_table = @ \cup {account_id},
                                 !.recorded = @ \cup {account_id}]
               ELSE acct
    /\ UNCHANGED otherThanAcct

\* The TTL of a failed-account record runs out: the store deletes it.
RecordExpires(account_id) ==
    /\ account_id \in acct.failed_table
    /\ acct' = [acct EXCEPT !.failed_table = @ \ {account_id},
                            !.must_omit = @ \ {account_id}]
    /\ UNCHANGED otherThanAcct

\* scheduler get_active_accounts: a new AccountManager, then its
\* get_active_accounts; the accounts recorded so far whose record is in the
\* store are the ones this call is due to omit.
StartGetActiveAccounts ==
    /\ acct.pc \in {"idle", "returned"}
    /\ acct.runs < MaxRuns
    /\ acct' = [acct EXCEPT !.pc = "get_cached", !.runs = @ + 1,
                            !.failed_accounts_cache = {}, !.cache_loaded = FALSE,
                            !.accounts = << >>, !.source = "none",
                            !.scan_ok = TRUE, !.result = << >>,
                            !.must_omit = acct.recorded \cap acct.failed_table]
    /\ UNCHANGED otherThanAcct

\* _get_cached_accounts: the cached list when it is valid and readable.
GetCachedAccounts(ok) ==
    /\ acct.pc = "get_cached"
    /\ acct' = IF ok /\ acct.cache_valid
               THEN [acct EXCEPT !.pc = "get_failed", !.source = "cache",
                                 !.accounts = acct.account_cache]
               ELSE [acct EXCEPT !.pc = "fetch"]
    /\ UNCHANGED otherThanAcct

\* _fetch_accounts_from_organizations and _cache_accounts; an empty fetch
\* returns [].
FetchAccounts(fetched, cached) ==
    /\ acct.pc = "fetch"
    /\ acct' = IF fetched
               THEN [acct EXCEPT
                       !.pc = "get_failed", !.source = "organizations",
                       !.accounts = OrgAccounts,
                       !.account_cache = IF cached THEN OrgAccounts ELSE @,
                       !.cache_valid = IF cached THEN TRUE ELSE @]
               ELSE [acct EXCEPT !.pc = "returned", !.result = << >>]
    /\ UNCHANGED otherThanAcct

\* get_failed_accounts: the in-memory set when loaded, else the scan of the
\* failed-accounts table, which yields no items when it fails.
get_failed_accounts(scan_ok) ==
    IF acct.cache_loaded THEN acct.failed_accounts_cache
    ELSE IF scan_ok THEN acct.failed_table ELSE {}

\* get_failed_accounts, the filter and the return of get_active_accounts.
FilterFailedAccounts(scan_ok) ==
    /\ acct.pc = "get_failed"
    /\ LET failed_accounts == get_failed_accounts(scan_ok)
       IN  acct' = [acct EXCEPT
                      !.pc = "returned",
                      !.failed_accounts_cache = failed_accounts,
                      !.cache_loaded = TRUE,
                      !.scan_ok = scan_ok,
                      !.result = ActiveAccounts(acct.accounts, failed_accounts)]
    /\ UNCHANGED otherThanAcct

InitAcct ==
    /\ WorkerAtRest
    /\ ddb = NoDdb
    /\ sched = NoSched
    /\ grp = NoGroup
    /\ cfg = NoConfig
    /\ http = NoHttp
    /\ calc = NoCalc
    /\ \E cache_valid \in BOOLEAN :
         acct = [NoAcct EXCEPT !.cache_valid = cache_valid,
                               !.account_cache =
                                  IF cache_valid THEN OrgAccounts ELSE << >>]

NextAcct ==
    \/ \E account_id \in 1 .. MaxOrgAccounts, ok \in BOOLEAN :
           RoleAssumptionFailed(account_id, ok)
    \/ \E account_id \in 1 .. MaxOrgAccounts : RecordExpires(account_id)
    \/ StartGetActiveAccounts
    \/ \E ok \in BOOLEAN : GetCachedAccounts(ok)
    \/ \E fetched, cached \in BOOLEAN : FetchAccounts(fetched, cached)
    \/ \E scan_ok \in BOOLEAN : FilterFailedAccounts(scan_ok)

\* SpecAcct: worker cycles recording failed accounts, records expiring, and
\* scheduler runs asking for the active accounts.
SpecAcct == InitAcct /\ [][NextAcct]_vars

----------------------------------------------------------------------------
(* One worker event: lambda_handler, validate_event, process_accounts,     *)
(* AccountProcessor.process_account and                                     *)
(* DistributionProcessor.process_distribution                               *)

\* The accounts of the event, in list order, and the distributions CloudWatch
\* lists for each.
EventAccounts == <<"a1", "a2">>
DistributionsOf(account_id) == IF account_id = "a1" THEN {"d1", "d2"} ELSE {"d1"}
Units == {<<"a1", "d1">>, <<"a1", "d2">>, <<"a2", "d1">>}

\* The account records an event may carry for an account: well formed, Email
\* missing, Id empty.
AccountRecords(account_id) ==
    { [Id |-> account_id, fields |-> {"Id", "Name", "Email"}],
      [Id |-> account_id, fields |-> {"Id", "Name"}],
      [Id |-> "", fields |-> {"Id", "Name", "Email"}] }

\* The MetricData get_metrics may return for a distribution.
MetricSamples ==
    { [current_requests |-> 3000, avg_requests |-> 500,       \* Requests critical
       current_bytes |-> 600 * MB, avg_bytes |-> 580 * MB],
      [current_requests |-> 1100, avg_requests |-> 500,       \* no abuse
       current_bytes |-> 600 * MB, avg_bytes |-> 580 * MB],
      [current_requests |-> 500, avg_requests |-> 500,        \* too small: skipped
       current_bytes |-> 100 * MB, avg_bytes |-> 100 * MB],
      [current_requests |-> -5, avg_requests |-> 500,         \* negative current
       current_bytes |-> 600 * MB, avg_bytes |-> 580 * MB],
      [current_requests |-> 0, avg_requests |-> 0,            \* CloudWatch failed:
       current_bytes |-> 0, avg_bytes |-> 0] }                \* zeros on error

\* Mutant of CounterKey: the key leaves the distribution out.
CounterKeyPerAccount(account_id, dist_id, metric_name) ==
    <<account_id, "d1", metric_name>>

\* counter_key = f"{account_id}#{dist_id}#{metric_name}"
CounterKey(account_id, dist_id, metric_name) == <<account_id, dist_id, metric_name>>

CounterKeys == {CounterKey(u[1], u[2], m) : u \in Units, m \in Metrics}

\* validate_event: the validated accounts, or the EventValidationError the
\* first malformed account raises.
RECURSIVE validate_accounts(_, _)
validate_accounts(accounts, i) ==
    IF i > Len(accounts) THEN [raised |-> FALSE, index |-> 0]
    ELSE IF {"Id", "Name", "Email"} \ accounts[i].fields # {}
              \/ accounts[i].Id = ""
         THEN [raised |-> TRUE, index |-> i - 1]
         ELSE validate_accounts(accounts, i + 1)

validate_event(event) == validate_accounts(event, 1)

\* Mutant of _should_skip_distribution: only a distribution without any
\* traffic is skipped.
_should_skip_distribution_idle_only(current_requests, current_bytes) ==
    current_requests = 0 /\ current_bytes = 0

_should_skip_distribution(current_requests, current_bytes) ==
    current_requests < min_requests_threshold /\ current_bytes < min_bytes_threshold

MetricCurrent(metrics, metric_name) ==
    IF metric_name = "Requests" THEN metrics.current_requests ELSE metrics.current_bytes

MetricAverage(metrics, metric_name) ==
    IF metric_name = "Requests" THEN metrics.avg_requests ELSE metrics.avg_bytes

NoUnit == [pc |-> "pending", evaluated |-> FALSE, updated |-> {}, queued |-> {},
           alerts_sent |-> 0, result |-> 0, raised |-> FALSE, skipped |-> FALSE]

CurrentAccount == grp.event[grp.index].Id

\* lambda_handler: validate_event, then process_accounts or the 400 response.
ValidateEvent ==
    /\ grp.pc = "validate"
    /\ LET v == validate_event(grp.event)
       IN  grp' = IF v.raised
                  THEN [grp EXCEPT !.pc = "returned", !.statusCode = 400,
                                   !.errors = <<v.index>>]
                  ELSE [grp EXCEPT !.pc = "init"]
    /\ UNCHANGED <<counterItems, windowItems, otherThanGroup>>

\* Mutant of FailedOnException: the failures counted so far are reported.
FailedOnExceptionAsCounted(accounts, accounts_processed, accounts_failed) ==
    accounts_failed

\* process_accounts, `except Exception`: 'accounts_failed': len(accounts) -
\* accounts_processed
FailedOnException(accounts, accounts_processed, accounts_failed) ==
    Len(accounts) - accounts_processed

\* process_accounts, steps 1 to 3: the configuration is loaded and validated
\* and the components are built. A configuration with validation errors
\* returns every account as failed; an exception ends in the outer handler.
InitComponents(outcome) ==
    /\ grp.pc = "init"
    /\ grp' = CASE outcome = "ok" ->
                   [grp EXCEPT !.pc = "account", !.index = 1]
                [] outcome = "invalid" ->
                   [grp EXCEPT !.pc = "returned", !.statusCode = 200,
                               !.path = "invalid",
                               !.accounts_processed = 0,
                               !.accounts_failed = Len(grp.event),
                               !.errors = <<0>>]
                [] outcome = "raised" ->
                   [grp EXCEPT !.pc = "returned", !.statusCode = 200,
                               !.path = "exception",
                               !.accounts_failed =
                                  FailedOnException(grp.event, grp.accounts_processed,
                                                    grp.accounts_failed),
                               !.errors = Append(@, 0)]
    /\ UNCHANGED <<counterItems, windowItems, otherThanGroup>>

\* process_accounts, step 4, `except Exception`: process_account raised; the
\* account is counted as failed and the loop continues.
RaiseInAccount ==
    /\ grp.pc = "account"
    /\ grp.index <= Len(grp.event)
    /\ grp' = [grp EXCEPT !.index = @ + 1,
                          !.accounts_failed = @ + 1,
                          !.errors = Append(@, grp.index)]
    /\ UNCHANGED <<counterItems, windowItems, otherThanGroup>>

\* process_account: _assume_role; on failure record_failed_account and
\* return 0, else submit every distribution to the pool.
AssumeRole(ok) ==
    /\ grp.pc = "account"
    /\ grp.index <= Len(grp.event)
    /\ grp' = IF ok
              THEN [grp EXCEPT
                      !.pc = "distributions",
                      !.unit = [u \in Units |->
                                  IF u[1] = CurrentAccount
                                  THEN [NoUnit EXCEPT !.pc = "fetch"] ELSE @[u]]]
              ELSE [grp EXCEPT !.index = @ + 1,
                               !.accounts_processed = @ + 1,
                               !.failed_recorded = @ \cup {CurrentAccount}]
    /\ UNCHANGED <<counterItems, windowItems, otherThanGroup>>

\* process_distribution, step 1 and 3: get_metrics and the skip of a
\* distribution that is too small.
FetchMetrics(u) ==
    /\ grp.pc = "distributions"
    /\ grp.unit[u].pc = "fetch"
    /\ LET metrics == grp.metrics[u]
       IN  grp' = IF _should_skip_distribution(metrics.current_requests,
                                               metrics.current_bytes)
                  THEN [grp EXCEPT !.unit[u].pc = "done",
                                   !.unit[u].skipped = TRUE,
                                   !.unit[u].result = 0]
                  ELSE [grp EXCEPT !.unit[u].pc = "evaluate"]
    /\ UNCHANGED <<counterItems, windowItems, otherThanGroup>>

\* process_distribution, step 4: evaluate_metric for both metrics; it returns
\* an evaluation for every pair of numbers.
EvaluateMetrics(u) ==
    /\ grp.pc = "distributions"
    /\ grp.unit[u].pc = "evaluate"
    /\ grp' = [grp EXCEPT !.unit[u].pc = "Requests", !.unit[u].evaluated = TRUE]
    /\ UNCHANGED <<counterItems, windowItems, otherThanGroup>>

\* _process_metric_evaluation for one metric: update_abuse_counter on a
\* healthy store, then the alert gate.
ProcessMetric(u) ==
    /\ grp.pc = "distributions"
    /\ grp.unit[u].pc \in Metrics
    /\ LET metric_name == grp.unit[u].pc
           evaluation == evaluate_metric(metric_name,
                                         MetricCurrent(grp.metrics[u], metric_name),
                                         MetricAverage(grp.metrics[u], metric_name))
           counter_key == CounterKey(u[1], u[2], metric_name)
           cached_item == get_item_with_retry(windowItems, <<counter_key, now>>, TRUE)
           new_count == IF WindowHit(cached_item) THEN cached_item.Count
                        ELSE NewCount(CountOf(counter_key), evaluation.is_abuse)
           should_alert == ShouldAlert(evaluation, new_count)
       IN  /\ counterItems' =
                IF WindowHit(cached_item) THEN counterItems
                ELSE put_item_with_retry(counterItems, counter_key, new_count, TRUE)
           /\ windowItems' =
                IF WindowHit(cached_item) THEN windowItems
                ELSE put_item_with_retry(windowItems, <<counter_key, now>>,
                                         new_count, TRUE)
           /\ grp' = [grp EXCEPT
                        !.unit[u].pc = IF metric_name = "Requests"
                                       THEN "BytesDownloaded" ELSE "return",
                        !.unit[u].updated = @ \cup {metric_name},
                        !.unit[u].queued =
                           IF should_alert THEN @ \cup {metric_name} ELSE @,
                        !.unit[u].alerts_sent =
                           IF should_alert THEN @ + 1 ELSE @]
    /\ UNCHANGED otherThanGroup

\* process_distribution returns alerts_sent.
ReturnDistribution(u) ==
    /\ grp.pc = "distributions"
    /\ grp.unit[u].pc = "return"
    /\ grp' = [grp EXCEPT !.unit[u].pc = "done",
                          !.unit[u].result = grp.unit[u].alerts_sent]
    /\ UNCHANGED <<counterItems, windowItems, otherThanGroup>>

\* Any step of process_distribution raises: `except Exception` logs the
\* error and returns 0.
RaiseInDistribution(u) ==
    /\ grp.pc = "distributions"
    /\ grp.unit[u].pc \in {"fetch", "evaluate", "Requests", "BytesDownloaded", "return"}
    /\ grp' = [grp EXCEPT !.unit[u].pc = "done", !.unit[u].raised = TRUE,
                          !.unit[u].result = 0]
    /\ UNCHANGED <<counterItems, windowItems, otherThanGroup>>

RECURSIVE SumOfResults(_)
SumOfResults(S) ==
    IF S = {} THEN 0
    ELSE LET u == CHOOSE x \in S : TRUE
         IN  grp.unit[u].result + SumOfResults(S \ {u})

\* _process_distributions_parallel has collected every future; process_account
\* returns the total and process_accounts takes the next account.
AccountDone ==
    /\ grp.pc = "distributions"
    /\ LET mine == {u \in Units : u[1] = CurrentAccount}
       IN  /\ \A u \in mine : grp.unit[u].pc = "done"
           /\ grp' = [grp EXCEPT
                        !.pc = "account", !.index = @ + 1,
                        !.accounts_processed = @ + 1,
                        !.alerts_generated = @ + SumOfResults(mine)]
    /\ UNCHANGED <<counterItems, windowItems, otherThanGroup>>

\* The account loop is over: alert_manager.shutdown, the result and the 200
\* response of lambda_handler.
ReturnResponse ==
    /\ grp.pc = "account"
    /\ grp.index > Len(grp.event)
    /\ grp' = [grp EXCEPT !.pc = "returned", !.statusCode = 200,
                          !.path = "normal"]
    /\ UNCHANGED <<counterItems, windowItems, otherThanGroup>>

\* process_accounts, steps 5 and 6: alert_manager.shutdown or the metrics
\* publication raises after the account loop; the outer handler returns.
RaiseAfterLoop ==
    /\ grp.pc = "account"
    /\ grp.index > Len(grp.event)
    /\ grp' = [grp EXCEPT !.pc = "returned", !.statusCode = 200,
                          !.path = "exception",
                          !.accounts_failed =
                             FailedOnException(grp.event, grp.accounts_processed,
                                               grp.accounts_failed),
                          !.errors = Append(@, 0)]
    /\ UNCHANGED <<counterItems, windowItems, otherThanGroup>>

InitGroup ==
    /\ now = 0
    /\ \E base \in {0, 2} :
         counterItems = IF base = 0 THEN << >> ELSE [k \in CounterKeys |-> base]
    /\ windowItems = << >>
    /\ sentItems = {}
    /\ sink = [a \in AlertKeys |-> 0]
    /\ InitCycle
    /\ hist = [k \in Metrics |-> NoHist]
    /\ ddb = NoDdb
    /\ sched = NoSched
    /\ acct = NoAcct
    /\ cfg = NoConfig
    /\ http = NoHttp
    /\ calc = NoCalc
    /\ \E event \in [1 .. Len(EventAccounts) ->
                       UNION {AccountRecords(EventAccounts[i]) :
                              i \in 1 .. Len(EventAccounts)}],
          metrics \in [Units -> MetricSamples] :
         /\ \A i \in 1 .. Len(EventAccounts) :
              event[i] \in AccountRecords(EventAccounts[i])
         /\ grp = [pc |-> "validate", event |-> event, metrics |-> metrics,
                   base |-> counterItems, index |-> 0, statusCode |-> 0,
                   errors |-> << >>, unit |-> [u \in Units |-> NoUnit],
                   accounts_processed |-> 0, accounts_failed |-> 0,
                   alerts_generated |-> 0, failed_recorded |-> {},
                   path |-> "none"]

NextGroup ==
    \/ ValidateEvent
    \/ InitComponents("ok")
    \/ \E ok \in BOOLEAN : AssumeRole(ok)
    \/ \E u \in Units : FetchMetrics(u)
    \/ \E u \in Units : EvaluateMetrics(u)
    \/ \E u \in Units : ProcessMetric(u)
    \/ \E u \in Units : ReturnDistribution(u)
    \/ \E u \in Units : RaiseInDistribution(u)
    \/ AccountDone
    \/ ReturnResponse

\* SpecGroup: one worker event; any step of any distribution may raise.
SpecGroup == InitGroup /\ [][NextGroup]_vars

\* SpecResult: one worker event in which, besides, the configuration may be
\* invalid, process_account may raise and process_accounts may raise before
\* or after its account loop.
NextResult ==
    \/ NextGroup
    \/ \E outcome \in {"invalid", "raised"} : InitComponents(outcome)
    \/ RaiseInAccount
    \/ RaiseAfterLoop

SpecResult == InitGroup /\ [][NextResult]_vars

----------------------------------------------------------------------------
(* The configuration: Config.validate                                      *)

\* `if cond: errors.append(message)`
Check(cond, message) == IF cond THEN <<message>> ELSE << >>

\* Config.validate: the list of error messages, in the order of the checks.
\* warning_multiplier and warning_duration_threshold are read by no check.
validate(self) ==
    Check(self.region = "", "AWS region cannot be empty")
    \o Check(self.org_access_role = "", "Organization access role cannot be empty")
    \o Check(self.abuse_multiplier <= 0, "Abuse multiplier must be positive")
    \o Check(self.duration_threshold < 1, "Duration threshold must be at least 1")
    \o Check(self.min_requests_threshold < 0,
             "Minimum requests threshold cannot be negative")
    \o Check(self.min_bytes_threshold < 0, "Minimum bytes threshold cannot be negative")
    \o Check(self.critical_requests_threshold < 0,
             "Critical requests threshold cannot be negative")
    \o Check(self.critical_bytes_threshold < 0,
             "Critical bytes threshold cannot be negative")
    \o Check(self.warning_requests_threshold < 0,
             "Warning requests threshold cannot be negative")
    \o Check(self.warning_bytes_threshold < 0,
             "Warning bytes threshold cannot be negative")
    \o Check(self.minimum_baseline_requests < 0,
             "Minimum baseline requests cannot be negative")
    \o Check(self.minimum_baseline_bytes < 0,
             "Minimum baseline bytes cannot be negative")
    \o Check(self.warning_requests_threshold > self.critical_requests_threshold,
             "Warning requests threshold cannot exceed critical threshold")
    \o Check(self.warning_bytes_threshold > self.critical_bytes_threshold,
             "Warning bytes threshold cannot exceed critical threshold")
    \o Check(self.max_workers < 1, "Max workers must be at least 1")
    \o Check(self.dist_max_workers < 1, "Distribution max workers must be at least 1")
    \o Check(self.alert_max_workers < 1, "Alert max workers must be at least 1")
    \o Check((self.telegram_bot_token # "") # (self.telegram_chat_id # ""),
             "Both TELEGRAM_BOT_TOKEN and TELEGRAM_CHAT_ID must be set, or neither")
    \o Check(self.ddb_abuse_counter_table = "",
             "DynamoDB abuse counter table name cannot be empty")
    \o Check(self.ddb_accounts_cache_table = "",
             "DynamoDB accounts cache table name cannot be empty")
    \o Check(self.ddb_failed_accounts_table = "",
             "DynamoDB failed accounts table name cannot be empty")
    \o Check(self.ddb_sent_alerts_table = "",
             "DynamoDB sent alerts table name cannot be empty")
    \o Check(self.accounts_cache_ttl < 0, "Accounts cache TTL cannot be negative")
    \o Check(self.metrics_cache_ttl < 0, "Metrics cache TTL cannot be negative")
    \o Check(self.failed_accounts_ttl < 0, "Failed accounts TTL cannot be negative")
    \o Check(self.abuse_counter_ttl < 0, "Abuse counter TTL cannot be negative")
    \o Check(self.sent_alerts_ttl < 0, "Sent alerts TTL cannot be negative")
    \o Check(self.display_timezone_offset < -12 \/ self.display_timezone_offset > 14,
             "Display timezone offset must be between -12 and +14")

\* Values the environment may give a multiplier and a duration threshold.
MultiplierValues == -1 .. MaxMultiplier
DurationValues == 0 .. MaxDuration

\* Config.from_environment: the defaults, overridden by the environment.
Configs ==
    { [DefaultConfig EXCEPT !.abuse_multiplier = am, !.warning_multiplier = wm,
                            !.duration_threshold = dt,
                            !.warning_duration_threshold = wdt,
                            !.warning_requests_threshold = wrt,
                            !.region = region,
                            !.telegram_bot_token = token] :
        am \in MultiplierValues, wm \in MultiplierValues,
        dt \in DurationValues, wdt \in DurationValues,
        wrt \in {-1, warning_requests_threshold, critical_requests_threshold + 1},
        region \in {"", "us-east-1"}, token \in {"", "token"} }

\* validate() is called on the loaded configuration.
Validate ==
    /\ cfg.pc = "loaded"
    /\ cfg' = [cfg EXCEPT !.pc = "validated", !.errors = validate(cfg.config)]
    /\ UNCHANGED otherThanConfig

InitConfig ==
    /\ WorkerAtRest
    /\ ddb = NoDdb
    /\ sched = NoSched
    /\ acct = NoAcct
    /\ grp = NoGroup
    /\ http = NoHttp
    /\ calc = NoCalc
    /\ \E config \in Configs : cfg = [NoConfig EXCEPT !.pc = "loaded", !.config = config]

NextConfig == Validate

\* SpecConfig: one configuration is loaded and validated.
SpecConfig == InitConfig /\ [][NextConfig]_vars

----------------------------------------------------------------------------
(* One delivery: AlertManager._send_alert, request by request              *)

\* AlertManager.RETRYABLE_ERRORS: urllib3 TimeoutError and ConnectionError
ALERT_RETRYABLE_ERRORS == {"TimeoutError", "ConnectionError"}

\* What one self._http.request call may do: return a response with a status,
\* raise a retryable transport error, or raise another exception.
HttpOutcomes ==
    { [raised |-> "none", status |-> status] : status \in {200, 400, 429, 500, 503} }
    \cup { [raised |-> e, status |-> 0] : e \in ALERT_RETRYABLE_ERRORS \cup {"Exception"} }

\* `max_retries = 2` of _send_alert
send_max_retries == 2

\* Mutant of IsServerError: client errors are retried as well.
IsServerOrClientError(status) == status >= 400

\* `response.status >= 500`
IsServerError(status) == status >= 500

\* The Telegram check at the head of _send_alert.
StartSend ==
    /\ http.pc = "start"
    /\ http' = IF http.configured
               THEN [http EXCEPT !.pc = "loop"]
               ELSE [http EXCEPT !.pc = "returned", !.result = "False"]
    /\ UNCHANGED otherThanHttp

\* One pass of `for attempt in range(max_retries + 1)`: one HTTP request and
\* the handling of its response or of what it raised.  The last pass always
\* returns, so the `return False` after the loop is never reached.
SendRequest(outcome) ==
    /\ http.pc = "loop"
    /\ http.attempt < send_max_retries + 1
    /\ LET sent == [http EXCEPT !.requests = Append(@, outcome)]
           again == [sent EXCEPT !.attempt = @ + 1, !.slept = @ + 2 ^ http.attempt]
           failed == [sent EXCEPT !.pc = "returned", !.result = "False"]
       IN  http' =
             IF outcome.raised = "none"
             THEN IF outcome.status = 200
                  THEN [sent EXCEPT !.pc = "returned", !.result = "True"]
                  ELSE IF IsServerError(outcome.status)
                          /\ http.attempt < send_max_retries
                       THEN again
                       ELSE failed
             ELSE IF outcome.raised \in ALERT_RETRYABLE_ERRORS
                  THEN IF http.attempt < send_max_retries THEN again ELSE failed
                  ELSE failed
    /\ UNCHANGED otherThanHttp

InitSend ==
    /\ WorkerAtRest
    /\ ddb = NoDdb
    /\ sched = NoSched
    /\ acct = NoAcct
    /\ grp = NoGroup
    /\ cfg = NoConfig
    /\ calc = NoCalc
    /\ \E configured \in BOOLEAN :
         http = [NoHttp EXCEPT !.pc = "start", !.configured = configured]

NextSend ==
    \/ StartSend
    \/ \E outcome \in HttpOutcomes : SendRequest(outcome)

\* SpecSend: one _send_alert call; the running call always takes its next step.
SpecSend == InitSend /\ [][NextSend]_vars /\ WF_vars(NextSend)

----------------------------------------------------------------------------
(* The numeric helpers of the evaluator, called on their own               *)

\* Values a current value, an average and a minimum baseline may take.
CalcValues == {-5, 0, 5, 25, 50, 100, 300}
BaselineValues == {0, 25, 100}

\* evaluate_metric, lines 93-102: the percentage change against the floor.
CalculatePercentageChange(current, average, minimum_baseline) ==
    /\ calc' = [NoCalc EXCEPT
                  !.op = "percentage", !.current = current, !.average = average,
                  !.minimum_baseline = minimum_baseline,
                  !.percentage_change =
                      _calculate_percentage_change(current, average, minimum_baseline)]
    /\ UNCHANGED otherThanCalc

\* evaluate_metric, lines 104-106: both relative checks of one sample, under
\* the multipliers of the configuration.
CheckThresholds(current, average, critical, warning) ==
    /\ calc' = [NoCalc EXCEPT
                  !.op = "thresholds", !.current = current, !.average = average,
                  !.abuse_multiplier = critical, !.warning_multiplier = warning,
                  !.meets_critical = _check_threshold(current, average, critical),
                  !.meets_warning = _check_threshold(current, average, warning)]
    /\ UNCHANGED otherThanCalc

InitCalc ==
    /\ WorkerAtRest
    /\ ddb = NoDdb
    /\ sched = NoSched
    /\ acct = NoAcct
    /\ grp = NoGroup
    /\ cfg = NoConfig
    /\ http = NoHttp
    /\ calc = NoCalc

NextCalc ==
    \/ \E current \in CalcValues, average \in CalcValues,
          minimum_baseline \in BaselineValues :
           CalculatePercentageChange(current, average, minimum_baseline)
    \/ \E current \in CalcValues, average \in CalcValues,
          critical \in MultiplierValues, warning \in MultiplierValues :
           CheckThresholds(current, average, critical, warning)

\* SpecCalc: the numeric helpers called on sampled inputs.
SpecCalc == InitCalc /\ [][NextCalc]_vars

----------------------------------------------------------------------------
(* Properties *)

LogIdx == 1 .. Len(log)

\* The log entries of the update_abuse_counter calls for `key` that computed
\* the window key `window`.
CallsIn(key, window) ==
    {i \in LogIdx : log[i].key = key /\ log[i].window = window}

FirstOf(S) == CHOOSE i \in S : \A j \in S : i <= j

\* One step of the counter from `count`.
StepFrom(count, is_abuse) ==
    IF is_abuse THEN count + 1 ELSE IF count = 0 THEN 0 ELSE count - 1

\* C1: N update_abuse_counter calls for one key with one is_abuse value, run
\* one after another inside one 15-minute window with a healthy store: the
\* first call writes the canonical record, moving the count one step (+1, or
\* -1 clamped at 0); no later call writes it or changes it; all N calls
\* return the same count.
C1_IdenticalCallsUpdateOnce ==
    \A key \in Metrics, window \in 0 .. MaxTime :
        LET S == CallsIn(key, window) IN
        (S # {} /\ \A i, j \in S :
                     log[i].evaluation.is_abuse = log[j].evaluation.is_abuse)
        => LET f == FirstOf(S) IN
           /\ log[f].wrote
           /\ log[f].after = StepFrom(log[f].before.Count, log[f].evaluation.is_abuse)
           /\ \A i \in S :
                /\ log[i].count = log[f].count
                /\ log[i].after = log[f].after
                /\ i # f => ~log[i].wrote /\ log[i].before.Count = log[f].after

\* Witness of C1: three identical abusive calls for one key in one window.
C1_Witness ==
    \E key \in Metrics, window \in 0 .. MaxTime :
        /\ Cardinality(CallsIn(key, window)) >= 3
        /\ \A i \in CallsIn(key, window) : log[i].evaluation.is_abuse

\* C2: two update_abuse_counter calls for one key with one is_abuse value that
\* run in one window, however their store calls interleave, leave the
\* canonical count one step from its value before both calls and return the
\* same count.
C2_ConcurrentCallsUpdateOnce ==
    \A key \in Metrics :
        ( /\ hist[key].calls = 2
          /\ ~hist[key].dirty
          /\ \A w \in Workers :
               /\ pc[w] \in {"gate", "shutdown"}
               /\ inv[w].key = key
               /\ inv[w].window = now
               /\ inv[w].storeOk
          /\ inv["w1"].evaluation.is_abuse = inv["w2"].evaluation.is_abuse )
        => /\ CountOf(key) = StepFrom(hist[key].base, inv["w1"].evaluation.is_abuse)
           /\ inv["w1"].count = inv["w2"].count

\* C3: no count in the store and no count returned is negative, and a clean
\* sample processed at count 0 leaves the count at 0.
C3_CountsNonNegative ==
    /\ \A key \in DOMAIN counterItems : counterItems[key] >= 0
    /\ \A wk \in DOMAIN windowItems : windowItems[wk] >= 0
    /\ \A w \in Workers :
         /\ inv[w].count >= 0
         /\ inv[w].new_count >= 0
         /\ ( /\ pc[w] \in {"put_window", "gate"}
              /\ inv[w].wrote
              /\ ~inv[w].evaluation.is_abuse
              /\ inv[w].current_count = 0 )
            => counterItems[inv[w].key] = 0

\* Witness of C3: a clean sample was processed at count 0 and written.
C3_Witness ==
    \E w \in Workers :
        /\ pc[w] = "gate"
        /\ inv[w].wrote
        /\ ~inv[w].evaluation.is_abuse
        /\ inv[w].current_count = 0
        /\ inv[w].count = 0

\* C4: evaluate_metric returns is_abuse exactly when (meets_critical or
\* meets_warning) and meets_absolute; of the four combinations of (relative
\* met, absolute met) only (true, true) gives is_abuse.
C4_DualThreshold ==
    /\ evalCall.called =>
         LET r == evalCall.result IN
         r.is_abuse <=> ( /\ r.meets_critical_threshold \/ r.meets_warning_threshold
                          /\ r.meets_absolute_threshold )
    /\ \A t \in evalSeen : t[3] <=> (t[1] /\ t[2])

\* Witness of C4: all four combinations of (relative, absolute) were evaluated.
C4_Witness ==
    {<<TRUE, TRUE, TRUE>>, <<TRUE, FALSE, FALSE>>,
     <<FALSE, TRUE, FALSE>>, <<FALSE, FALSE, FALSE>>} \subseteq evalSeen

\* C5: _process_metric_evaluation queues an alert exactly when the evaluation
\* is abusive and either the critical tier is met with the count at least
\* duration_threshold, or only the warning tier is met with the count at
\* least warning_duration_threshold; a non-abusive evaluation queues none.
C5_TieredGate ==
    \A w \in Workers :
        pc[w] = "shutdown" =>
            LET e == inv[w].evaluation IN
            /\ inv[w].queued <=>
                 /\ e.is_abuse
                 /\ \/ e.meets_critical_threshold /\ inv[w].count >= duration_threshold
                    \/ /\ ~e.meets_critical_threshold
                       /\ e.meets_warning_threshold
                       /\ inv[w].count >= warning_duration_threshold
            /\ inv[w].queued <=> task[w].state # "none"
            /\ ~e.is_abuse => task[w].state = "none"

\* Witness of C5: the warning tier alone queued an alert at a count of 2 or more.
C5_Witness ==
    \E w \in Workers :
        /\ pc[w] = "shutdown"
        /\ inv[w].queued
        /\ ~inv[w].evaluation.meets_critical_threshold
        /\ inv[w].count >= warning_duration_threshold

WarningOnly(e) ==
    /\ e.evaluation.is_abuse
    /\ ~e.evaluation.meets_critical_threshold
    /\ e.evaluation.meets_warning_threshold

\* Log entries i, i+1, i+2 are the scenario of C6: the counter of the key is 0
\* and no alert of the key was sent in the hour; three consecutive cycles for
\* the key, in three distinct windows of that hour, each the first call of
\* its window for the key, are abusive at warning tier only.
C6_Scenario(i) ==
    /\ i + 2 <= Len(log)
    /\ \A j \in i .. i + 2 :
         /\ log[j].key = log[i].key
         /\ ~log[j].marked
         /\ WarningOnly(log[j])
         /\ Hour(log[j].window) = Hour(log[i].window)
         /\ log[j].queued => log[j].hour = Hour(log[i].window)
    /\ log[i].window < log[i + 1].window
    /\ log[i + 1].window < log[i + 2].window
    /\ log[i].before.Count = 0
    /\ \A j \in 1 .. i - 1 :
         ~(log[j].key = log[i].key /\ log[j].outcome = "sent"
           /\ log[j].hour = Hour(log[i].window))

C7_CriticalScenario ==
    \A i \in LogIdx :
        ( /\ log[i].key = "Requests"
          /\ log[i].current = 3000
          /\ log[i].average = 500
          /\ ~log[i].before.found
          /\ ~log[i].marked )
        => /\ abuse_multiplier = 3
           /\ critical_requests_threshold = 2500
           /\ duration_threshold = 1
           /\ log[i].evaluation.is_abuse
           /\ log[i].evaluation.meets_critical_threshold
           /\ log[i].evaluation.meets_absolute_threshold
           /\ log[i].evaluation.severity = "Critical"
           /\ log[i].count = 1
           /\ log[i].wrote
           /\ log[i].after = 1
           /\ log[i].queued

\* Witness of C7: such a cycle has finished.
C7_Witness ==
    \E i \in LogIdx :
        /\ log[i].key = "Requests"
        /\ log[i].current = 3000
        /\ log[i].average = 500
        /\ ~log[i].before.found
        /\ ~log[i].marked
        /\ log[i].outcome = "sent"

\* The log entries whose alert has the alert key <<key, hour>>.
AlertsOf(key, hour) ==
    {i \in LogIdx : log[i].queued /\ log[i].key = key /\ log[i].hour = hour}

\* C8: of the alerts of one (account, distribution, metric) stamped in one
\* clock hour and handled one after the other (healthy store, sink accepting),
\* the first is sent and every later one is suppressed: one message reaches
\* the sink; the first alert of the triple in another hour is sent again.
C8_OneDispatchPerHour ==
    \A a \in AlertKeys :
        LET S == AlertsOf(a[1], a[2]) IN
        /\ S # {} =>
             /\ log[FirstOf(S)].outcome = "sent"
             /\ \A i \in S \ {FirstOf(S)} : log[i].outcome = "duplicate"
        /\ (\A w \in Workers : pc[w] \in {"idle", "returned"}) =>
             sink[a] = IF S = {} THEN 0 ELSE 1

\* Witness of C8: two alerts of one key in one hour, and one in the next hour.
C8_Witness ==
    \E key \in Metrics :
        /\ Cardinality(AlertsOf(key, 0)) = 2
        /\ Cardinality(AlertsOf(key, 1)) = 1
        /\ sink[<<key, 0>>] = 1
        /\ sink[<<key, 1>>] = 1

\* C9: while no store call and no delivery fails, at most one message per
\* (account, distribution, metric, hour) reaches the sink, also when two
\* duplicate invocations dispatch the alert concurrently.
C9_AtMostOneDispatch ==
    faults = 0 => \A a \in AlertKeys : sink[a] <= 1

\* C10: when process_accounts has returned, the alert it queued has completed
\* its duplicate check and its delivery attempt.
C10_DrainedBeforeReturn ==
    \A w \in Workers :
        (pc[w] = "returned" /\ task[w].state # "none")
        => /\ task[w].state = "done"
           /\ task[w].outcome \in {"duplicate", "sent", "failed"}

\* Witness of C10: a cycle returned after its alert was delivered.
C10_Witness ==
    \E w \in Workers :
        /\ pc[w] = "returned"
        /\ task[w].state = "done"
        /\ task[w].outcome = "sent"

\* C12: where update_abuse_counter calls for one key do not overlap, the
\* canonical count of the key changes at most once in a 15-minute window,
\* also when store calls fail: at any moment it is at most one step away
\* from its value at the start of the window.
C12_AtMostOneChangePerWindow ==
    \A key \in Metrics :
        ~hist[key].dirty =>
            /\ CountOf(key) - hist[key].base <= 1
            /\ hist[key].base - CountOf(key) <= 1

\* The value _process_metric_evaluation returned in the running cycle, which
\* process_distribution, process_account and process_accounts sum up into
\* alerts_generated.
AlertsReturned(w) == IF inv[w].queued THEN 1 ELSE 0

\* C17: the alert count a worker cycle reports equals the number of alerts
\* that cycle sent to the notification sink: once the alert pool has drained,
\* the count is 1 exactly when the alert was delivered.
C17_CountEqualsSent ==
    \A w \in Workers :
        (pc[w] = "shutdown" /\ ShutdownReady(w))
        => AlertsReturned(w) = IF task[w].outcome = "sent" THEN 1 ELSE 0

LastError == ddb.errors[Len(ddb.errors)]

\* The safety part of C13.
C13_Bounded ==
    /\ ddb.calls <= ddb.max_retries
    /\ ddb.calls = Len(ddb.errors)
    /\ \A i \in 1 .. Len(ddb.errors) - 1 : ddb.errors[i] \in RETRYABLE_ERRORS
    /\ ddb.pc = "returned" =>
         /\ ddb.result \in {"Item", "None", "True", "False"}
         /\ IF ddb.errors # << >> /\ LastError = "ok"
            THEN ddb.result = IF ddb.op = "put" THEN "True"
                              ELSE IF ddb.present THEN "Item" ELSE "None"
            ELSE ddb.result = IF ddb.op = "put" THEN "False" ELSE "None"
         /\ (\A i \in 1 .. Len(ddb.errors) : ddb.errors[i] \in RETRYABLE_ERRORS)
            => ddb.calls = ddb.max_retries

\* C13: get_item_with_retry and put_item_with_retry make at most max_retries
\* store calls; only a retryable error is retried, until a call succeeds or
\* max_retries calls have failed, and then get returns None and put returns
\* False (a value, nothing is raised); the operation always returns.
C13_BoundedRetries == [](C13_Bounded) /\ <>(ddb.pc = "returned")

\* Witness of C13: a put with the default max_retries gave up after three
\* retryable errors.
C13_Witness ==
    /\ ddb.pc = "returned"
    /\ ddb.op = "put"
    /\ ddb.max_retries = default_max_retries
    /\ ddb.calls = 3
    /\ \A i \in 1 .. 3 : ddb.errors[i] \in RETRYABLE_ERRORS
    /\ ddb.result = "False"

\* C14: a store call that raises a non-retryable ClientError or another
\* exception is the last call of the operation, which returns None (get) or
\* False (put) at once; when the first call raises it, the operation has made
\* exactly one store call.
C14_NoRetryOnFatalError ==
    (ddb.errors # << >> /\ LastError \notin RETRYABLE_ERRORS \cup {"ok"})
    => /\ ddb.pc = "returned"
       /\ ddb.result = IF ddb.op = "put" THEN "False" ELSE "None"
       /\ Len(ddb.errors) = 1 => ddb.calls = 1

\* Witness of C14: with retries left, the first call raised AccessDenied (get)
\* or an unexpected exception (put) and the operation returned.
C14_Witness ==
    /\ ddb.pc = "returned"
    /\ ddb.max_retries = default_max_retries
    /\ ddb.calls = 1
    /\ \/ ddb.op = "get" /\ ddb.errors = <<"AccessDeniedException">>
       \/ ddb.op = "put" /\ ddb.errors = <<"Exception">>

RECURSIVE Flatten(_)
Flatten(groups) ==
    IF groups = << >> THEN << >> ELSE Head(groups) \o Flatten(Tail(groups))

RECURSIVE SumOfSizes(_)
SumOfSizes(groups) ==
    IF groups = << >> THEN 0 ELSE Len(Head(groups)) + SumOfSizes(Tail(groups))

ElementsOf(q) == {q[i] : i \in 1 .. Len(q)}

\* C15: group_accounts returns consecutive slices of the account list in the
\* original order: every account is in exactly one group, the group sizes sum
\* to the length of the list, no group is empty, every group but the last has
\* exactly max(1, group_size) accounts, and an empty list gives no groups.
C15_GroupsPartitionTheList ==
    sched.pc \in {"invoke", "returned"} =>
        LET groups == sched.account_groups
            size == IF sched.group_size >= 1 THEN sched.group_size ELSE 1
        IN  /\ Flatten(groups) = sched.accounts
            /\ \A a \in ElementsOf(sched.accounts) :
                 Cardinality({k \in 1 .. Len(groups) : a \in ElementsOf(groups[k])}) = 1
            /\ SumOfSizes(groups) = Len(sched.accounts)
            /\ \A k \in 1 .. Len(groups) : groups[k] # << >>
            /\ \A k \in 1 .. Len(groups) - 1 : Len(groups[k]) = size
            /\ sched.accounts = << >> => groups = << >>

\* Witness of C15: three accounts in groups of two give a full group and a
\* last group of one.
C15_Witness ==
    /\ sched.pc = "invoke"
    /\ Len(sched.accounts) = 3
    /\ sched.group_size = 2
    /\ Len(sched.account_groups) = 2
    /\ Len(sched.account_groups[2]) = 1

Accepted(attempt) == attempt[2].raised = "none" /\ attempt[2].StatusCode = 202

\* C16: with WORKER_LAMBDA_NAME set, invoke_workers_async attempts every
\* account group exactly once, in group-index order, whatever the earlier
\* attempts did; workers_invoked is the number of attempts answered with
\* status 202, and workers_invoked + len(errors) is the number of groups.
C16_OneAttemptPerGroup ==
    sched.worker_lambda_name =>
        /\ \A i \in 1 .. Len(sched.attempts) : sched.attempts[i][1] = i - 1
        /\ sched.workers_invoked =
             Cardinality({i \in 1 .. Len(sched.attempts) : Accepted(sched.attempts[i])})
        /\ sched.pc = "returned" =>
             /\ Len(sched.attempts) = Len(sched.account_groups)
             /\ sched.workers_invoked + Len(sched.errors) = Len(sched.account_groups)

\* Witness of C16: of three groups the first attempt raised, the second was
\* answered 500 and the third was accepted.
C16_Witness ==
    /\ sched.pc = "returned"
    /\ sched.worker_lambda_name
    /\ Len(sched.account_groups) = 3
    /\ Len(sched.attempts) = 3
    /\ sched.attempts[1][2].raised = "ClientError"
    /\ sched.attempts[2][2].StatusCode = 500
    /\ Accepted(sched.attempts[3])
    /\ sched.workers_invoked = 1

BaseCount(k) == IF k \in DOMAIN grp.base THEN grp.base[k] ELSE 0

\* What process_distribution yields for unit u when it runs alone and nothing
\* raises: per metric the new count and whether an alert is queued.
ExpectedOf(u, metric_name) ==
    LET metrics == grp.metrics[u]
        current == IF metric_name = "Requests" THEN metrics.current_requests
                   ELSE metrics.current_bytes
        average == IF metric_name = "Requests" THEN metrics.avg_requests
                   ELSE metrics.avg_bytes
        base == BaseCount(<<u[1], u[2], metric_name>>)
        skipped == /\ metrics.current_requests < min_requests_threshold
                   /\ metrics.current_bytes < min_bytes_threshold
        evaluation == evaluate_metric(metric_name, current, average)
        count == IF skipped THEN base ELSE NewCount(base, evaluation.is_abuse)
    IN  [count |-> count,
         queued |-> ~skipped /\ ShouldAlert(evaluation, count)]

StoredCount(k) == IF k \in DOMAIN counterItems THEN counterItems[k] ELSE 0

\* C11: a distribution whose processing raises yields 0, and every other
\* distribution of the account and every other account of the event is
\* processed and ends with the counters and alerts it has when nothing fails.
C11_FailureIsolated ==
    /\ \A u \in Units :
         grp.unit[u].pc = "done" =>
            IF grp.unit[u].raised
            THEN grp.unit[u].result = 0
            ELSE /\ \A m \in Metrics :
                      /\ StoredCount(<<u[1], u[2], m>>) = ExpectedOf(u, m).count
                      /\ m \in grp.unit[u].queued <=> ExpectedOf(u, m).queued
                 /\ grp.unit[u].result =
                      Cardinality({m \in Metrics : ExpectedOf(u, m).queued})
    /\ (grp.pc = "returned" /\ grp.statusCode = 200) =>
         /\ grp.accounts_processed = Len(grp.event)
         /\ \A u \in Units :
              u[1] \notin grp.failed_recorded => grp.unit[u].pc = "done"

\* Witness of C11: distribution d1 of account a1 raised after its Requests
\* counter update; d2 of a1 and d1 of a2 were processed and d2 queued an alert.
C11_Witness ==
    /\ grp.pc = "returned"
    /\ grp.unit[<<"a1", "d1">>].raised
    /\ grp.unit[<<"a1", "d1">>].updated = {"Requests"}
    /\ ~grp.unit[<<"a1", "d2">>].raised
    /\ grp.unit[<<"a1", "d2">>].result = 1
    /\ grp.unit[<<"a2", "d1">>].pc = "done"
    /\ ~grp.unit[<<"a2", "d1">>].raised
    /\ grp.unit[<<"a2", "d1">>].updated = Metrics

WellFormed(account) ==
    {"Id", "Name", "Email"} \subseteq account.fields /\ account.Id # ""

\* C18: when an account record of the event lacks a required field or has an
\* empty Id, only that account is skipped: every well-formed account of the
\* event has been processed when the handler returns.
C18_OnlyMalformedSkipped ==
    grp.pc = "returned" =>
        \A i \in 1 .. Len(grp.event) :
            WellFormed(grp.event[i]) =>
                \/ grp.event[i].Id \in grp.failed_recorded
                \/ \A u \in Units :
                     u[1] = grp.event[i].Id => grp.unit[u].pc = "done"

\* C19: evaluate_metric called with a negative current value returns no
\* evaluation, and neither a counter update nor an alert is made for that
\* metric in the cycle.
C19_NegativeCurrentRejected ==
    \A u \in Units :
        (grp.pc # "idle" /\ grp.metrics[u].current_requests < 0) =>
            /\ "Requests" \notin grp.unit[u].updated
            /\ "Requests" \notin grp.unit[u].queued
            /\ StoredCount(<<u[1], u[2], "Requests">>) =
                 BaseCount(<<u[1], u[2], "Requests">>)

(* C21: every configuration that validate() accepts (empty error list) has  *)
(* abuse_multiplier > warning_multiplier > 0.                               *)
C21_ValidMultipliersOrdered ==
    cfg.pc = "validated" /\ cfg.errors = << >> =>
        /\ cfg.config.abuse_multiplier > cfg.config.warning_multiplier
        /\ cfg.config.warning_multiplier > 0

(* C22: with duration_threshold = 1 and a healthy store, every cycle whose  *)
(* evaluation is abusive and meets the critical threshold queues an alert,  *)
(* whatever the counter and the window marker held before the call.         *)
C22_CriticalAlertsImmediately ==
    \A i \in LogIdx :
        log[i].evaluation.is_abuse /\ log[i].evaluation.meets_critical_threshold
            => log[i].queued

\* The cycles for `key` up to log entry i: the calls that were the first of
\* their 15-minute window for the key.
CyclesOf(key, i) == {j \in 1 .. i : log[j].key = key /\ ~log[j].marked}

\* The last n cycles for `key` up to log entry i.
LastCycles(key, i, n) ==
    {j \in CyclesOf(key, i) : Cardinality({k \in CyclesOf(key, i) : k >= j}) <= n}

(* C23: a warning-tier (non-critical) alert is queued for a key only when   *)
(* the samples of the last warning_duration_threshold cycles for the key,   *)
(* the current one included, were all abusive.                              *)
C23_WarningNeedsConsecutiveAbuse ==
    \A i \in LogIdx :
        /\ log[i].queued
        /\ WarningOnly(log[i])
        /\ ~log[i].marked
        /\ Cardinality(CyclesOf(log[i].key, i)) >= warning_duration_threshold
        => \A j \in LastCycles(log[i].key, i, warning_duration_threshold) :
               log[j].evaluation.is_abuse

\* The count update_abuse_counter found in the store when it was called.
CountBefore(w) == IF inv[w].before.found THEN inv[w].before.Count ELSE 0

\* A window marker of the call's window key is in the store.
MarkerPresent(w) == <<inv[w].key, inv[w].window>> \in DOMAIN windowItems

(* C24: when the write of the canonical record fails, update_abuse_counter  *)
(* returns the count it read before the update, attempts no window marker   *)
(* write (the marker table is as it was), and the stored canonical count is *)
(* unchanged.                                                               *)
C24_FailedMainWriteIsSafe ==
    \A w \in SeqWorkers :
        inv[w].success_main = "failed" =>
            /\ pc[w] \in {"gate", "shutdown"}
            /\ inv[w].count = inv[w].current_count
            /\ inv[w].read = "ok" => inv[w].current_count = CountBefore(w)
            /\ inv[w].success_window = "none"
            /\ MarkerPresent(w) = inv[w].marked
            /\ CountOf(inv[w].key) = CountBefore(w)

C24_Witness ==
    \E w \in SeqWorkers :
        /\ inv[w].success_main = "failed"
        /\ pc[w] = "shutdown"
        /\ inv[w].new_count # inv[w].current_count
        /\ inv[w].current_count > 0

(* C25: when the canonical write succeeds and only the window marker write  *)
(* fails, update_abuse_counter returns the new count and the canonical      *)
(* record holds the new count.                                              *)
C25_FailedMarkerWriteKeepsUpdate ==
    \A w \in SeqWorkers :
        inv[w].success_main = "ok" /\ inv[w].success_window = "failed" =>
            /\ pc[w] \in {"gate", "shutdown"}
            /\ inv[w].new_count =
                   NewCount(inv[w].current_count, inv[w].evaluation.is_abuse)
            /\ inv[w].count = inv[w].new_count
            /\ CountOf(inv[w].key) = inv[w].new_count

C25_Witness ==
    \E w \in SeqWorkers :
        /\ inv[w].success_main = "ok"
        /\ inv[w].success_window = "failed"
        /\ pc[w] = "shutdown"
        /\ inv[w].new_count # inv[w].current_count
        /\ ~MarkerPresent(w)

(* C26: when the window marker lookup fails, update_abuse_counter goes on   *)
(* as if no marker existed: it reads the canonical count, computes the      *)
(* increment or the clamped decrement from it, and writes and returns it.   *)
C26_FailedLookupIsCacheMiss ==
    \A w \in SeqWorkers :
        inv[w].lookup = "failed" =>
            /\ pc[w] \in {"read_counter", "put_main", "put_window", "gate", "shutdown"}
            /\ pc[w] # "read_counter" => inv[w].read # "none"
            /\ inv[w].read = "ok" =>
                   /\ inv[w].current_count = CountBefore(w)
                   /\ inv[w].new_count =
                          NewCount(CountBefore(w), inv[w].evaluation.is_abuse)
            /\ inv[w].success_main = "ok" => CountOf(inv[w].key) = inv[w].new_count
            /\ pc[w] \in {"gate", "shutdown"} /\ inv[w].success_main = "ok" =>
                   inv[w].count = inv[w].new_count

C26_Witness ==
    \E w \in SeqWorkers :
        /\ inv[w].lookup = "failed"
        /\ inv[w].marked
        /\ pc[w] = "shutdown"
        /\ inv[w].success_main = "ok"
        /\ inv[w].count # CountBefore(w)

(* C27: when the lookup in the sent-alerts table fails and the in-process   *)
(* set does not hold the alert's key, the alert is not treated as a         *)
(* duplicate: its delivery is attempted.                                    *)
C27_FailedLookupFailsOpen ==
    \A w \in SeqWorkers :
        task[w].lookup = "failed" =>
            /\ task[w].state \in {"send", "record", "done"}
            /\ task[w].outcome # "duplicate"
            /\ task[w].state = "done" => task[w].outcome \in {"sent", "failed"}

C27_Witness ==
    \E w \in SeqWorkers :
        /\ task[w].lookup = "failed"
        /\ task[w].state = "done"
        /\ task[w].outcome = "sent"
        /\ sink[AlertKey(w)] = 2

\* The requests _send_alert has made so far.
RequestIdx == 1 .. Len(http.requests)

\* A transport error of the retryable kind was raised by the request.
TransportError(request) == request.raised \in ALERT_RETRYABLE_ERRORS

\* The request was answered with a 4xx status, or raised another exception.
TerminalFailure(request) ==
    \/ request.raised = "none" /\ request.status >= 400 /\ request.status < 500
    \/ request.raised = "Exception"

C28_Bounded ==
    /\ Len(http.requests) <= send_max_retries + 1
    /\ http.pc = "returned" => http.result \in {"True", "False"}
    /\ \A i \in RequestIdx :
         /\ TerminalFailure(http.requests[i]) =>
                /\ i = Len(http.requests)
                /\ http.pc = "returned"
                /\ http.result = "False"
         /\ TransportError(http.requests[i]) /\ http.pc = "returned"
                /\ i = Len(http.requests) =>
                /\ i = send_max_retries + 1
                /\ http.result = "False"

(* C28: _send_alert makes at most 3 HTTP requests and always returns True   *)
(* or False: a timeout or connection error is retried until 2 retries are   *)
(* used up, a 4xx response or any other exception ends the call after that  *)
(* request, and nothing is raised to the caller.                            *)
C28_BoundedDelivery == [](C28_Bounded) /\ <>(http.pc = "returned")

C28_Witness ==
    /\ http.pc = "returned"
    /\ http.result = "False"
    /\ Len(http.requests) = send_max_retries + 1
    /\ \A i \in RequestIdx : TransportError(http.requests[i])

(* C29: an alert whose every request is answered with a 5xx status causes   *)
(* at most 2 requests (one retry) before it is reported as not sent.        *)
C29_ServerErrorRetriedOnce ==
    /\ http.pc = "returned"
    /\ \A i \in RequestIdx :
         http.requests[i].raised = "none" /\ http.requests[i].status >= 500
    => Len(http.requests) <= 2

\* The severity and the multiplier of the tier an evaluation result met.
TierSeverity(r) ==
    IF r.meets_critical_threshold THEN "Critical"
    ELSE IF r.meets_warning_threshold THEN "Warning" ELSE "None"

TierMultiplier(r) ==
    IF r.meets_critical_threshold THEN abuse_multiplier
    ELSE IF r.meets_warning_threshold THEN warning_multiplier ELSE 0

(* C30, as stated: for every input evaluate_metric returns the severity of  *)
(* the tier met (critical, else warning, else none) and the multiplier of   *)
(* that tier (critical multiplier, warning multiplier, or 0).               *)
C30_SeverityFollowsTier ==
    evalCall.called =>
        /\ evalCall.result.severity = TierSeverity(evalCall.result)
        /\ evalCall.result.multiplier_level = TierMultiplier(evalCall.result)

(* C30, amended: multiplier_level is the multiplier of the tier met for     *)
(* every input; severity is the severity of that tier when is_abuse holds   *)
(* and none whenever is_abuse is false.                                     *)
C30_SeverityFollowsTierWhenAbuse ==
    evalCall.called =>
        /\ evalCall.result.is_abuse =>
               evalCall.result.severity = TierSeverity(evalCall.result)
        /\ ~evalCall.result.is_abuse => evalCall.result.severity = "None"
        /\ evalCall.result.multiplier_level = TierMultiplier(evalCall.result)

C30_Witness ==
    /\ evalCall.called
    /\ evalCall.result.meets_critical_threshold
    /\ ~evalCall.result.meets_absolute_threshold
    /\ evalCall.result.severity = "None"
    /\ evalCall.result.multiplier_level = abuse_multiplier
    /\ \E t \in evalSeen : t[3]

\* max(baseline, minimum_baseline), the denominator C31 names.
Denominator == Max(calc.average, calc.minimum_baseline)

(* C31: the percentage change is (current - baseline) * 100 / max(baseline, *)
(* minimum_baseline) whenever that denominator is not 0 (baseline 5,        *)
(* minimum baseline 100, current 50 divides by 100); when it is 0 the       *)
(* result is 0 for current = 0 and +infinity otherwise.                     *)
C31_PercentageAgainstFloor ==
    calc.op = "percentage" =>
        LET r == calc.percentage_change IN
        IF Denominator # 0
        THEN /\ ~r.inf
             /\ r.num * 100 * Denominator
                    = (calc.current - calc.average) * 100 * r.den
             /\ r.den # 0
        ELSE IF calc.current = 0 THEN ~r.inf /\ r.num = 0 ELSE r.inf

C31_Witness ==
    /\ calc.op = "percentage"
    /\ calc.average = 5
    /\ calc.minimum_baseline = 100
    /\ calc.current = 50
    /\ calc.percentage_change = [inf |-> FALSE, num |-> 45, den |-> 100]

(* C32: for every current value and every baseline >= 0, under multipliers  *)
(* with abuse_multiplier > warning_multiplier > 0, meeting the critical     *)
(* threshold implies meeting the warning threshold; with baseline 0 any     *)
(* positive current value meets both.                                       *)
C32_CriticalImpliesWarning ==
    /\ calc.op = "thresholds"
    /\ calc.average >= 0
    /\ calc.abuse_multiplier > calc.warning_multiplier
    /\ calc.warning_multiplier > 0
    => /\ calc.meets_critical => calc.meets_warning
       /\ calc.average = 0 /\ calc.current > 0 =>
              calc.meets_critical /\ calc.meets_warning

C32_Witness ==
    /\ calc.op = "thresholds"
    /\ calc.average > 0
    /\ calc.abuse_multiplier > calc.warning_multiplier
    /\ calc.warning_multiplier > 0
    /\ calc.meets_critical
    /\ calc.meets_warning

(* C33: where update_abuse_counter calls for one key do not overlap (store  *)
(* calls may fail), a window marker of the key's current 15-minute window   *)
(* holds, between calls, the count of the key's canonical record.           *)
C33_MarkerMirrorsCounter ==
    \A key \in Metrics :
        /\ ~\E w \in SeqWorkers : InUpdate(w) /\ inv[w].key = key
        /\ <<key, now>> \in DOMAIN windowItems
        => windowItems[<<key, now>>] = CountOf(key)

\* The canonical record of a key, as a get would return it.
Canonical(key) == IF key \in DOMAIN counterItems THEN Item(counterItems[key]) ELSE NoItem

\* Worker w takes the step that leaves position `at` of update_abuse_counter.
Leaves(w, at) == pc[w] = at /\ pc'[w] # at

C34_Frame ==
    /\ \A key \in Metrics :
         Canonical(key)' # Canonical(key) =>
             \E w \in Workers : Leaves(w, "put_main") /\ inv[w].key = key
    /\ DOMAIN windowItems \subseteq DOMAIN windowItems'
    /\ \A m \in DOMAIN windowItems' :
         (m \notin DOMAIN windowItems \/ windowItems'[m] # windowItems[m]) =>
             \E w \in Workers :
                 Leaves(w, "put_window") /\ m = <<inv[w].key, inv[w].window>>
    /\ \A w \in Workers :
         /\ Leaves(w, "check_window") /\ pc'[w] = "gate" =>
                /\ <<inv[w].key, inv[w].window>> \in DOMAIN windowItems
                /\ inv'[w].count = windowItems[<<inv[w].key, inv[w].window>>]
         /\ Leaves(w, "read_counter") =>
                inv'[w].current_count \in {0, CountOf(inv[w].key)}

(* C34: update_abuse_counter(key, ...) reads and writes only the canonical  *)
(* record of key and the window marker of key for its window: every step    *)
(* leaves the canonical records and the markers of every other key as they  *)
(* were, also while a call for another key is under way.                    *)
C34_OnlyOwnRecords == [][C34_Frame]_vars

\* Two calls for different keys are under way and both keys have records.
C34_Witness ==
    /\ InUpdate("w1")
    /\ InUpdate("w2")
    /\ inv["w1"].key # inv["w2"].key
    /\ inv["w1"].wrote
    /\ pc["w2"] = "put_window"
    /\ CountOf(inv["w1"].key) # CountOf(inv["w2"].key)

(* C35: a distribution whose current requests are below                     *)
(* min_requests_threshold and whose current bytes are below                 *)
(* min_bytes_threshold (the zeros get_metrics returns on an error included) *)
(* has no counter read or written for either metric, its stored counts stay *)
(* what they were, and it queues no alert.                                  *)
C35_SmallDistributionUntouched ==
    \A u \in Units :
        (grp.pc # "idle"
         /\ grp.metrics[u].current_requests < min_requests_threshold
         /\ grp.metrics[u].current_bytes < min_bytes_threshold) =>
            /\ grp.unit[u].updated = {}
            /\ grp.unit[u].queued = {}
            /\ ~grp.unit[u].evaluated
            /\ grp.unit[u].result = 0
            /\ \A m \in Metrics :
                 StoredCount(CounterKey(u[1], u[2], m)) =
                   BaseCount(CounterKey(u[1], u[2], m))

\* Two distributions have returned from the skip, one with the zeros of a
\* failed metrics call and one with low traffic, over stored counts of 2,
\* while another distribution of the event had its counters updated.
C35_Witness ==
    /\ \E u, v \in Units :
         /\ grp.unit[u].skipped /\ grp.unit[u].pc = "done"
         /\ grp.metrics[u].current_requests = 0 /\ grp.metrics[u].current_bytes = 0
         /\ grp.unit[v].skipped /\ grp.unit[v].pc = "done"
         /\ grp.metrics[v].current_requests = 500
         /\ BaseCount(CounterKey(u[1], u[2], "Requests")) = 2
    /\ \E x \in Units : grp.unit[x].updated = Metrics

(* C36: whenever update_abuse_counter is not short-circuited by a window    *)
(* marker and its canonical write succeeds, the count written is old + 1    *)
(* for an abusive sample and max(0, old - 1) for a clean one, where old is  *)
(* the count stored for the key when the call started, also when the read   *)
(* of the canonical record fails.                                           *)
C36_WrittenCountFollowsStored ==
    \A w \in SeqWorkers :
        ~inv[w].marked /\ inv[w].success_main = "ok" =>
            /\ inv[w].new_count =
                   NewCount(CountBefore(w), inv[w].evaluation.is_abuse)
            /\ pc[w] = "put_window" => CountOf(inv[w].key) = inv[w].new_count

\* The alert key of the dispatch logged at i.
LoggedAlertKey(i) == <<log[i].key, log[i].hour>>

(* C37: a delivery that fails adds the alert's key neither to the           *)
(* in-process sent set nor to the sent-alerts table, so a later alert for   *)
(* the same (account, distribution, metric, hour) is not suppressed as a    *)
(* duplicate; a key is in the in-process set only after a successful        *)
(* delivery or after a record of it was read from the sent-alerts table.    *)
C37_FailedDeliveryNotRecorded ==
    /\ \A w \in SeqWorkers :
         task[w].outcome = "failed" =>
            /\ AlertKey(w) \notin sentAlerts[w]
            /\ sink[AlertKey(w)] = 0 => AlertKey(w) \notin sentItems
    /\ \A k \in AlertKeys :
         /\ k \in sentItems => sink[k] > 0
         /\ \A w \in SeqWorkers :
              k \in sentAlerts[w] =>
                 \/ task[w].outcome = "sent" /\ AlertKey(w) = k
                 \/ task[w].lookup = "ok" /\ AlertKey(w) = k /\ k \in sentItems
    /\ \A j \in LogIdx :
         log[j].outcome = "duplicate" =>
            \E i \in 1 .. j - 1 :
               LoggedAlertKey(i) = LoggedAlertKey(j) /\ log[i].outcome = "sent"

\* The delivery of an alert failed in one invocation, and the alert a later
\* invocation queued for the same key and hour has been delivered.
C37_Witness ==
    \E i \in LogIdx, w \in SeqWorkers :
        /\ log[i].outcome = "failed"
        /\ task[w].outcome = "sent"
        /\ AlertKey(w) = LoggedAlertKey(i)
        /\ sink[AlertKey(w)] = 1

\* The count the window marker of the call's window key holds.
MarkerCount(w) == windowItems[WindowKey(inv[w].key, inv[w].window)]

(* C38: when a window marker exists for the key's current 15-minute window, *)
(* update_abuse_counter returns the marker's count and performs no store    *)
(* write, whatever the is_abuse argument: the canonical counter is not      *)
(* changed by the call.                                                     *)
C38_MarkerShortCircuits ==
    \A w \in SeqWorkers :
        inv[w].marked =>
            /\ ~inv[w].wrote
            /\ inv[w].success_main = "none" /\ inv[w].success_window = "none"
            /\ CountOf(inv[w].key) = CountBefore(w)
            /\ pc[w] \in {"gate", "shutdown"} => inv[w].count = MarkerCount(w)

(* C38 as the code has it: when the lookup of the window marker returns the *)
(* marker of the key's current 15-minute window, update_abuse_counter       *)
(* returns the marker's count and makes no further store call, whatever the *)
(* is_abuse argument; canonical record and marker stay as they were.        *)
C38_MarkerHitShortCircuits ==
    \A w \in SeqWorkers :
        inv[w].marked /\ inv[w].lookup = "ok" =>
            /\ pc[w] \in {"gate", "shutdown"}
            /\ ~inv[w].wrote
            /\ inv[w].read = "none"
            /\ inv[w].success_main = "none" /\ inv[w].success_window = "none"
            /\ CountOf(inv[w].key) = CountBefore(w)
            /\ MarkerPresent(w) /\ inv[w].count = MarkerCount(w)

\* A call with an abusive sample has returned the count 0 of the marker a
\* clean sample of the same window left, over a canonical count of 0.
C38_Witness ==
    \E w \in SeqWorkers :
        /\ inv[w].marked /\ inv[w].lookup = "ok"
        /\ pc[w] = "shutdown"
        /\ inv[w].evaluation.is_abuse
        /\ inv[w].count = 0
        /\ CountOf(inv[w].key) = 0

(* C39: in every result process_accounts returns, accounts_processed +      *)
(* accounts_failed equals the number of accounts passed in: on the normal   *)
(* path, on a configuration that fails validation and on an unexpected      *)
(* exception alike.                                                         *)
C39_EveryAccountCounted ==
    /\ grp.pc = "returned" /\ grp.path # "none" =>
          grp.accounts_processed + grp.accounts_failed = Len(grp.event)
    /\ grp.pc = "returned" /\ grp.path = "invalid" =>
          grp.accounts_processed = 0 /\ grp.alerts_generated = 0
    /\ grp.pc # "idle" =>
          /\ grp.accounts_processed + grp.accounts_failed <= Len(grp.event)
          /\ grp.pc = "account" =>
                grp.accounts_processed + grp.accounts_failed = grp.index - 1

\* process_accounts has returned from its outer exception handler after a
\* loop in which one account was processed and process_account raised for
\* the other.
C39_Witness ==
    /\ grp.pc = "returned"
    /\ grp.path = "exception"
    /\ grp.accounts_processed = 1
    /\ grp.accounts_failed = 1
    /\ \E u \in Units : grp.unit[u].updated = Metrics

====
